---- MODULE Spec2Model ----
(***************************************************************************)
(* Keeper backend of the Tethra DEX: the NonceManager singleton that       *)
(* issues transaction sequence numbers, the RelayService submission paths  *)
(* that use it (relayTransaction, cancelOrderGasless,                      *)
(* closePositionGasless), the keeper loops that send with the same signing *)
(* key, and the ledger's view of that key's sequence numbers.              *)
(*                                                                         *)
(* One action is one run-to-completion step of the JavaScript event loop:  *)
(* the code between two awaits.  A ledger RPC is an await, so the ledger   *)
(* is read or written in a step of its own.                                *)
(***************************************************************************)
EXTENDS Integers, Sequences, FiniteSets, TLC

----------------------------------------------------------------------------
(* Bounds of the model *)

\* the keeper loops stop sending once the ledger's count reaches this value
MaxNonce ==
  3

\* the most activations of monitorLoop() one controller has alive together
MaxLoops ==
  2

\* the orders the intake path creates
MaxOrders ==
  2

\* the positions of the ledger
MaxPositions ==
  3

----------------------------------------------------------------------------
(* Program constants *)

\* a retry ceiling that is one too high
OneMoreRetry ==
  3 + 1

\* const MAX_RETRIES = 3 (relayTransaction, closePositionGasless, cancelOrderGasless)
MAX_RETRIES ==
  3

\* const TRADING_FEE_BPS = 5n
TRADING_FEE_BPS ==
  5

\* private nonce: number | null = null
NULL ==
  -1

\* the RelayService calls that are made, each by its own request handler
Calls ==
  {"a", "b", "c"}

\* the calls made where closePositionGasless or the keeper loops take part
TwoCalls ==
  {"a", "b"}

Kinds ==
  {"relay", "cancel", "close"}

\* PositionMonitor.liquidatePosition and TapToTradeExecutor.executeOrder
Keepers ==
  {"liquidation", "order"}

----------------------------------------------------------------------------
(* Strings, as sequences of characters, with the two string operations    *)
(* isNonceError uses: toLowerCase() and includes().                        *)

MsgNotInitialized ==
  <<"N","o","n","c","e","M","a","n","a","g","e","r"," ","n","o","t"," ","i","n","i","t","i","a","l","i","z","e","d">>

MsgNonceUsed ==
  <<"n","o","n","c","e"," ","h","a","s"," ","a","l","r","e","a","d","y"," ","b","e","e","n"," ","u","s","e","d">>

MsgNonceTooLow ==
  <<"n","o","n","c","e"," ","t","o","o"," ","l","o","w">>

MsgReplacementFee ==
  <<"r","e","p","l","a","c","e","m","e","n","t"," ","f","e","e"," ","t","o","o"," ","l","o","w">>

MsgUnderpriced ==
  <<"r","e","p","l","a","c","e","m","e","n","t"," ","t","r","a","n","s","a","c","t","i","o","n"," ","u","n","d","e","r","p","r","i","c","e","d">>

MsgInsufficientFunds ==
  <<"i","n","s","u","f","f","i","c","i","e","n","t"," ","f","u","n","d","s"," ","f","o","r"," ","i","n","t","r","i","n","s","i","c"," ","t","r","a","n","s","a","c","t","i","o","n"," ","c","o","s","t">>

MsgServerError ==
  <<"s","e","r","v","e","r"," ","r","e","s","p","o","n","s","e"," ","5","0","3">>

MsgGiveUp ==
  <<"F","a","i","l","e","d"," ","t","o"," ","s","e","n","d"," ","t","r","a","n","s","a","c","t","i","o","n"," ","a","f","t","e","r"," ","r","e","t","r","i","e","s">>

MsgEmpty ==
  <<>>

MarkerNonce ==
  <<"n","o","n","c","e">>

MarkerUnderpriced ==
  <<"r","e","p","l","a","c","e","m","e","n","t"," ","t","r","a","n","s","a","c","t","i","o","n"," ","u","n","d","e","r","p","r","i","c","e","d">>

UpperCase ==
  <<"A","B","C","D","E","F","G","H","I","J","K","L","M","N","O","P","Q","R","S","T","U","V","W","X","Y","Z">>
LowerCase ==
  <<"a","b","c","d","e","f","g","h","i","j","k","l","m","n","o","p","q","r","s","t","u","v","w","x","y","z">>
\* String.prototype.toLowerCase on one character
LowerChar(ch) ==
  IF \E i \in 1..Len(UpperCase) : UpperCase[i] = ch
  THEN LowerCase[CHOOSE i \in 1..Len(UpperCase) : UpperCase[i] = ch]
  ELSE ch

\* String.prototype.toLowerCase
ToLowerCase(s) ==
  [i \in 1..Len(s) |-> LowerChar(s[i])]

\* String.prototype.includes
Includes(s, t) ==
  \E i \in 0..(Len(s) - Len(t)) : \A j \in 1..Len(t) : s[i + j] = t[j]

----------------------------------------------------------------------------
(* Errors a submission attempt can end with: {code, message, info.error.message} *)

\* NonceManager.getNonce / getNonceBatch: reject(new Error('NonceManager not initialized'))
ErrNotInitialized ==
  [code |-> "", message |-> MsgNotInitialized, info |-> MsgEmpty]

\* the ledger refuses a sequence number that a mined transaction already used
ErrNonceExpired ==
  [code |-> "NONCE_EXPIRED", message |-> MsgNonceUsed, info |-> MsgNonceTooLow]

\* the ledger refuses a sequence number that a pending transaction already uses
ErrReplacement ==
  [code |-> "REPLACEMENT_UNDERPRICED", message |-> MsgReplacementFee, info |-> MsgUnderpriced]

\* the ledger refuses the transaction for a reason other than its sequence number
ErrInsufficientFunds ==
  [code |-> "INSUFFICIENT_FUNDS", message |-> MsgInsufficientFunds, info |-> MsgInsufficientFunds]

\* an RPC to the ledger fails
ErrServer ==
  [code |-> "SERVER_ERROR", message |-> MsgServerError, info |-> MsgEmpty]

\* throw new Error('Failed to send transaction after retries')
ErrGiveUp ==
  [code |-> "", message |-> MsgGiveUp, info |-> MsgEmpty]

NoError ==
  [code |-> "", message |-> MsgEmpty, info |-> MsgEmpty]

\* the errors with which the ledger answers a sequence conflict
ConflictErrors ==
  {ErrNonceExpired, ErrReplacement}

\* every error of the model
Errors ==
  {NoError, ErrNotInitialized, ErrNonceExpired, ErrReplacement, ErrInsufficientFunds,
   ErrServer, ErrGiveUp}

\* RelayService.isNonceError
isNonceError(e) ==
  IF e = NoError
  THEN FALSE
  ELSE \/ e.code = "NONCE_EXPIRED"
       \/ Includes(ToLowerCase(e.message), MarkerNonce)
       \/ Includes(ToLowerCase(e.message), MarkerUnderpriced)
       \/ Includes(ToLowerCase(e.info), MarkerNonce)
       \/ Includes(ToLowerCase(e.info), MarkerUnderpriced)

\* isNonceError, evaluated once for every error of the model
NonceErrorTable ==
  [e \in Errors |-> isNonceError(e)]

----------------------------------------------------------------------------
(* State *)

VARIABLES
  \* NonceManager (singleton)
  wallet,      \* NonceManager.wallet is set
  nonce,       \* NonceManager.nonce, NULL before the first write
  mutex,       \* NonceManager.mutex
  queue,       \* NonceManager.queue: the calls whose resolver was pushed
  \* NonceManager.init(), started un-awaited by the RelayService constructor
  initPc,      \* "reading", "writing", "done", "failed"
  initVal,     \* the count the ledger reported to init()
  \* the ledger, for the one signing key (RELAY_PRIVATE_KEY)
  used,        \* sequence numbers of the transactions the ledger accepted
  \* RelayService calls
  pc,          \* position of each call
  kind,        \* "relay", "cancel" or "close"
  attempt,     \* let attempt
  prom,        \* state of the awaited promise of getNonce()/getNonceBatch()
  myNonce,     \* const nonce / startNonce; after the return, the handle's value
  fees,        \* [treasury, relayer, refund] amounts (closePositionGasless)
  rv,          \* the count the ledger reported to this call's resync()
  result,      \* "none", "ok" (a handle is returned), "fail" (an error is thrown)
  err,         \* the error the call threw
  tails,       \* un-awaited settlement transactions on their way to the ledger
  stage,       \* closePositionGasless with awaited settlement: the transaction the
               \* loop body is at, "close" or "settle" ("none" outside such a call)
  closes,      \* history: the close transactions of the call the ledger accepted
  \* keeper loops, sending through a Contract bound to the same key
  kpc,         \* "idle", or the keeper loop whose transaction is on its way
  kn,          \* the sequence number the signer filled in for it
  \* history (not program state)
  log,         \* [call, v, k, op]: the issues since the counter was last written
  base,        \* the value last written to the counter by init()/resync()
  owed,        \* largest count written by a resync() since the last issue
  solo,        \* the call that alone used the NonceManager since it began
  sends,       \* send attempts of each call
  conflicts,   \* send attempts of each call the ledger refused as a conflict
  resyncs,     \* resync() calls of each call
  \* PositionMonitor.checkPositionLiquidation (one check at a time: the scan awaits it)
  mpc,         \* "idle", "risk" (awaiting shouldLiquidate), "liquidate" (awaiting liquidatePosition)
  mpos,        \* the position being checked, or last checked
  mquote,      \* its entry of currentPrices: [price, age], or NoQuote
  mpnl,        \* let pnl
  mbps,        \* const pnlBps
  mverdict,    \* what RiskManager.shouldLiquidate did: "none", "true", "false", "threw"
  mout,        \* how the last check ended: "none", "skipped", "error", "kept", "submitted"
  \* PythPriceService
  clock,       \* Date.now()
  currentPrices,        \* PythPriceService.currentPrices: symbol -> [price, publishTime]
  priceUpdateCallbacks, \* PythPriceService.priceUpdateCallbacks
  \* history of the last message handled by processPriceUpdate
  pmsg,        \* the message
  pat,         \* the clock at its arrival
  pseq,        \* flips with every message
  delivered,   \* the callbacks invoked for it, in order of invocation
  threw,       \* the callbacks that threw
  escaped,     \* an exception left notifyPriceUpdate
  \* the WebSocket of the PythPriceService
  pythWs,      \* this.pythWs is set
  wsState,     \* the socket last created: "new" (none yet), "none" (the constructor
               \* threw), "connecting", "open", "closing", "closed"
  reconnectAttempts,    \* this.reconnectAttempts
  timers,      \* the delays of the pending setTimeout calls of attemptReconnect
  consec,      \* history: reconnects scheduled since the last open event
  shut,        \* history: shutdown() has completed
  \* the StabilityFundStreamer
  streamerRunning,      \* this.isRunning of the streamer
  isStreaming, \* this.isStreaming
  runPc,       \* per streamToVault activation: "none", or the await it is at
  snonce,      \* per activation: the sequence value it holds (NULL: none)
  lastSkip,    \* history: the last streamer step was a trigger that was skipped
  \* the controller loops (PositionMonitor, TapToTradeExecutor)
  isRunning,   \* this.isRunning, per controller
  loopPc,      \* per controller and monitorLoop() activation: "none", "scan", "sleep"
  lhist,       \* history: "stoppedInScan" after a stop() during a scan, then "completed"
  \* the order store (TapToTradeService) and the scans of the TapToTradeExecutor
  orders,      \* the stored orders: [status, startTime, endTime, isLong, note]
  lastCleanupTime, \* TapToTradeExecutor.lastCleanupTime
  apc,         \* per activation, its scan: "none", "sign", "nonce", "send", "wait", "done"
  snap,        \* const pendingOrders, from the order being handled on
  anow,        \* const now
  ostart,      \* history: the call of executeOrder the executor's last step made
  olast,       \* history: the pre-flight check the executor's last step made
  oseen,       \* history: the quote the for loop read in the executor's last step
  \* the ledger's positions and the scan of the PositionMonitor
  ledger,      \* status of position 1, 2, ...: 0 is Open
  spc,         \* checkAllPositions: "none", "count", "scan", "done"
  sid,         \* let positionId
  stotal,      \* const totalPositions
  sfailed      \* history: the positions whose force-close failed

nmVars ==
  <<wallet, nonce, mutex, queue>>

initVars ==
  <<initPc, initVal>>

callVars ==
  <<pc, kind, attempt, prom, myNonce, fees, rv, result, err>>

keeperVars ==
  <<kpc, kn>>

countVars ==
  <<sends, conflicts, resyncs>>

issueVars ==
  <<log, base, owed, solo>>

histVars ==
  <<issueVars, countVars>>

monitorVars ==
  <<mpc, mpos, mquote, mpnl, mbps, mverdict, mout>>

\* the state of the RelayService, its NonceManager, the ledger and the keeper sends
settleVars ==
  <<stage, closes>>

relayVars ==
  <<nmVars, initVars, used, callVars, tails, keeperVars, settleVars, histVars>>

\* the state outside the RelayService and its NonceManager
connVars ==
  <<pythWs, wsState, reconnectAttempts, timers, consec, shut>>

streamVars ==
  <<streamerRunning, isStreaming, runPc, snonce, lastSkip>>

\* the price service, and the streamer that is started next to it
priceVars ==
  <<clock, currentPrices, priceUpdateCallbacks, pmsg, pat, pseq, delivered, threw, escaped,
    connVars, streamVars>>

loopVars ==
  <<isRunning, loopPc, lhist>>

orderVars ==
  <<orders, lastCleanupTime, apc, snap, anow, ostart, olast, oseen>>

scanVars ==
  <<ledger, spc, sid, stotal, sfailed>>

otherVars ==
  <<monitorVars, priceVars, loopVars, orderVars, scanVars>>

vars ==
  <<relayVars, otherVars>>

----------------------------------------------------------------------------
(* The ledger *)

\* provider.getTransactionCount(address, 'pending'): the first sequence
\* number that no accepted transaction carries, counting from 0
PendingCount ==
  CHOOSE n \in 0..(Cardinality(used)) : n \notin used /\ \A m \in 0..(n - 1) : m \in used

Max(a, b) ==
  IF a >= b THEN a ELSE b

----------------------------------------------------------------------------
(* closePositionGasless: fees and the number of transactions *)

\* the positions a close request can meet: {collateral, pnl}
PositionInputs ==
  { [collateral |-> 0, pnl |-> 0],
    [collateral |-> 2000, pnl |-> -2000],
    [collateral |-> 2000, pnl |-> 0],
    [collateral |-> 10000, pnl |-> 100] }

tradingFee(p) ==
  (p.collateral * TRADING_FEE_BPS) \div 10000

relayerFee(p) ==
  (tradingFee(p) * 2000) \div 10000

treasuryFee(p) ==
  tradingFee(p) - relayerFee(p)

refundAmount(p) ==
  IF p.pnl >= 0
  THEN p.collateral + p.pnl - tradingFee(p)
  ELSE IF p.collateral > (-p.pnl) + tradingFee(p)
       THEN p.collateral - (-p.pnl) - tradingFee(p)
       ELSE 0

Fees(p) ==
  [treasury |-> treasuryFee(p), relayer |-> relayerFee(p), refund |-> refundAmount(p)]

NoFees ==
  [treasury |-> 0, relayer |-> 0, refund |-> 0]

\* a reservation of four values whatever the amounts
AlwaysFour(f) ==
  4

\* let txCount = 1; if (treasuryFee > 0n) txCount++; ...
TxCount(f) ==
  1 + (IF f.treasury > 0 THEN 1 ELSE 0)
    + (IF f.relayer > 0 THEN 1 ELSE 0)
    + (IF f.refund > 0 THEN 1 ELSE 0)

\* the settlement transactions sent after the close, each with currentNonce++
TailOps(f) ==
  LET t1 == IF f.treasury > 0 THEN <<"treasury">> ELSE <<>>
      t2 == IF f.relayer > 0 THEN <<"relayer">> ELSE <<>>
      t3 == IF f.refund > 0 THEN <<"refund">> ELSE <<>>
  IN  t1 \o t2 \o t3

----------------------------------------------------------------------------
(* PositionMonitor: values of an empty slot *)

\* no position has been checked yet
NoPosition ==
  [isLong |-> TRUE, entryPrice |-> 0, size |-> 0, collateral |-> 0, status |-> NULL]

\* this.currentPrices.get(position.symbol) is undefined
NoQuote ==
  [price |-> 0, age |-> NULL]

----------------------------------------------------------------------------
(* PythPriceService: symbols and values of an empty slot *)

\* the symbols of the configured assets (assetByFeedId / SUPPORTED_ASSETS)
PriceSymbols ==
  {"BTC", "ETH"}

\* currentPrices[symbol] is undefined
NoPrice ==
  [price |-> 0, publishTime |-> NULL]

\* no message has arrived yet
NoMessage ==
  [feed |-> "", price |-> 0, publish_time |-> NULL]

----------------------------------------------------------------------------
(* Initial state: the RelayService constructor has run; init() has set the  *)
(* wallet and is awaiting the ledger's count.                               *)

\* the two controllers with a monitorLoop
Controllers ==
  {"PositionMonitor", "TapToTradeExecutor"}

\* the activations of monitorLoop() of one controller that are alive together
Loops ==
  1..MaxLoops

\* the orders the intake path can create
Orders ==
  1..MaxOrders

NoOrder ==
  [status |-> "None", startTime |-> 0, endTime |-> 0, isLong |-> TRUE, note |-> ""]

NoStart ==
  [order |-> 0, was |-> "", at |-> 0, now |-> 0, quote |-> NoQuote]

NoSessionKey ==
  [expiresAt |-> 0, authorizedBy |-> <<>>]

NoPreflight ==
  [order |-> 0, orderNonce |-> "", chainNonce |-> NULL, recovered |-> <<>>,
   sessionKey |-> FALSE, session |-> NoSessionKey, path |-> ""]

Init ==
  /\ wallet = TRUE
  /\ nonce = NULL
  /\ mutex = FALSE
  /\ queue = <<>>
  /\ initPc = "reading"
  /\ initVal = NULL
  /\ used = {}
  /\ pc = [c \in Calls |-> "idle"]
  /\ kind = [c \in Calls |-> "relay"]
  /\ attempt = [c \in Calls |-> 0]
  /\ prom = [c \in Calls |-> "none"]
  /\ myNonce = [c \in Calls |-> NULL]
  /\ fees = [c \in Calls |-> NoFees]
  /\ rv = [c \in Calls |-> NULL]
  /\ result = [c \in Calls |-> "none"]
  /\ err = [c \in Calls |-> NoError]
  /\ tails = {}
  /\ stage = [c \in Calls |-> "none"]
  /\ closes = [c \in Calls |-> 0]
  /\ kpc = "idle"
  /\ kn = NULL
  /\ log = <<>>
  /\ base = NULL
  /\ owed = NULL
  /\ solo = "none"
  /\ sends = [c \in Calls |-> 0]
  /\ conflicts = [c \in Calls |-> 0]
  /\ resyncs = [c \in Calls |-> 0]
  /\ mpc = "idle"
  /\ mpos = NoPosition
  /\ mquote = NoQuote
  /\ mpnl = 0
  /\ mbps = 0
  /\ mverdict = "none"
  /\ mout = "none"
  /\ clock = 61000
  /\ currentPrices = [s \in PriceSymbols |-> NoPrice]
  /\ priceUpdateCallbacks = <<>>
  /\ pythWs = FALSE
  /\ wsState = "new"
  /\ reconnectAttempts = 0
  /\ timers = {}
  /\ consec = 0
  /\ shut = FALSE
  /\ streamerRunning = FALSE
  /\ isStreaming = FALSE
  /\ runPc = [s \in Loops |-> "none"]
  /\ snonce = [s \in Loops |-> NULL]
  /\ lastSkip = FALSE
  /\ pmsg = NoMessage
  /\ pat = NULL
  /\ pseq = 0
  /\ delivered = <<>>
  /\ threw = {}
  /\ escaped = FALSE
  /\ isRunning = [k \in Controllers |-> FALSE]
  /\ loopPc = [k \in Controllers |-> [i \in Loops |-> "none"]]
  /\ lhist = [k \in Controllers |-> "none"]
  /\ orders = [o \in Orders |-> NoOrder]
  /\ lastCleanupTime = 0
  /\ apc = [i \in Loops |-> "none"]
  /\ snap = [i \in Loops |-> <<>>]
  /\ anow = [i \in Loops |-> 0]
  /\ ostart = NoStart
  /\ olast = NoPreflight
  /\ oseen = NoQuote
  /\ ledger = [id \in 1..MaxPositions |-> 0]
  /\ spc = "none"
  /\ sid = 0
  /\ stotal = 0
  /\ sfailed = {}

----------------------------------------------------------------------------
(* NonceManager *)

\* a counter that is not advanced
SameNonce(n) ==
  n

\* a counter that is advanced twice
SkipNonce(n) ==
  n + 2

\* this.nonce++ in getNonce
NextNonce(n) ==
  n + 1

\* a batch that advances the counter by one
BatchOfOne(n, count) ==
  n + 1

\* this.nonce += count in getNonceBatch
BatchNonce(n, count) ==
  n + count

\* a mutex that is not released
StuckMutex ==
  TRUE

\* this.mutex = false, after execute()
ReleasedMutex ==
  FALSE

\* a counter that always counts as initialized
AlwaysInitialized(n) ==
  FALSE

\* if (this.nonce === null) in getNonce and getNonceBatch
NotInitialized(n) ==
  n = NULL

\* processQueue: the first resolver is shifted off the queue and not invoked
processQueue(q) ==
  IF Len(q) > 0 THEN Tail(q) ELSE q

\* this.nonce = await ...getTransactionCount(address, 'pending') in resync
ResyncedNonce(old, count) ==
  count

\* history of an issue of the values v..v+k-1 to call c
Issued(c, v, k, op) ==
  /\ log' = Append(log, [call |-> c, v |-> v, k |-> k, op |-> op])
  /\ owed' = NULL

\* NonceManager.getNonce, called by c
getNonce(c) ==
  /\ IF ~mutex
     THEN /\ mutex' = ReleasedMutex
          /\ queue' = processQueue(queue)
          /\ IF NotInitialized(nonce)
             THEN /\ prom' = [prom EXCEPT ![c] = "rejected"]
                  /\ myNonce' = [myNonce EXCEPT ![c] = NULL]
                  /\ UNCHANGED <<nonce, log, owed>>
             ELSE /\ nonce' = NextNonce(nonce)
                  /\ prom' = [prom EXCEPT ![c] = "value"]
                  /\ myNonce' = [myNonce EXCEPT ![c] = nonce]
                  /\ Issued(c, nonce, 1, "next")
     ELSE /\ queue' = Append(queue, c)
          /\ prom' = [prom EXCEPT ![c] = "pending"]
          /\ myNonce' = [myNonce EXCEPT ![c] = NULL]
          /\ UNCHANGED <<nonce, mutex, log, owed>>
  /\ solo' = IF pc[c] = "idle" \/ solo = c THEN c ELSE "none"
  /\ UNCHANGED <<wallet, base>>

\* NonceManager.getNonceBatch(count), called by c
getNonceBatch(c, count) ==
  /\ IF NotInitialized(nonce)
     THEN /\ prom' = [prom EXCEPT ![c] = "rejected"]
          /\ myNonce' = [myNonce EXCEPT ![c] = NULL]
          /\ UNCHANGED <<nonce, log, owed>>
     ELSE /\ nonce' = BatchNonce(nonce, count)
          /\ prom' = [prom EXCEPT ![c] = "value"]
          /\ myNonce' = [myNonce EXCEPT ![c] = nonce]
          /\ Issued(c, nonce, count, "batch")
  /\ solo' = IF pc[c] = "idle" \/ solo = c THEN c ELSE "none"
  /\ UNCHANGED <<wallet, mutex, queue, base>>

\* NonceManager.init: the ledger answers the count request
InitRead ==
  /\ initPc = "reading"
  /\ initPc' = "writing"
  /\ initVal' = PendingCount
  /\ UNCHANGED <<otherVars, nmVars, used, callVars, tails, keeperVars, settleVars, histVars>>

\* NonceManager.init: this.nonce = <the count read>
InitWrite ==
  /\ initPc = "writing"
  /\ initPc' = "done"
  /\ nonce' = initVal
  /\ initVal' = NULL
  /\ log' = <<>>
  /\ base' = initVal
  /\ solo' = "none"
  /\ UNCHANGED <<otherVars, wallet, mutex, queue, used, callVars, tails, keeperVars, settleVars,
                 owed, countVars>>

\* NonceManager.init: the count request fails; the constructor's .catch logs it
InitFail ==
  /\ initPc = "reading"
  /\ initPc' = "failed"
  /\ UNCHANGED <<otherVars, nmVars, initVal, used, callVars, tails, keeperVars, settleVars, histVars>>

----------------------------------------------------------------------------
(* RelayService: relayTransaction, cancelOrderGasless, closePositionGasless *)

\* the locals of the loop body go out of scope
DropLocals(c) ==
  /\ prom' = [prom EXCEPT ![c] = "none"]
  /\ myNonce' = [myNonce EXCEPT ![c] = NULL]
  /\ fees' = [fees EXCEPT ![c] = NoFees]
  /\ rv' = [rv EXCEPT ![c] = NULL]

\* the call ends by throwing e
Throw(c, e) ==
  /\ pc' = [pc EXCEPT ![c] = "done"]
  /\ result' = [result EXCEPT ![c] = "fail"]
  /\ err' = [err EXCEPT ![c] = e]
  /\ attempt' = [attempt EXCEPT ![c] = 0]
  /\ DropLocals(c)

\* catch (err) { if (this.isNonceError(err)) { attempt++; await resync(); continue; } throw err; }
\* resync() throws at once when the NonceManager has no wallet
Caught(c, e) ==
  IF NonceErrorTable[e]
  THEN /\ resyncs' = [resyncs EXCEPT ![c] = resyncs[c] + 1]
       /\ IF wallet
          THEN /\ pc' = [pc EXCEPT ![c] = "resyncRead"]
               /\ attempt' = [attempt EXCEPT ![c] = attempt[c] + 1]
               /\ DropLocals(c)
               /\ UNCHANGED <<result, err>>
          ELSE Throw(c, ErrNotInitialized)
  ELSE /\ Throw(c, e)
       /\ UNCHANGED resyncs

\* relayTransaction is called: estimateGas, validateGasPayment and
\* calculateUsdcCost answer, and the loop body calls getNonce()
StartRelay(c) ==
  /\ pc[c] = "idle"
  /\ kind' = [kind EXCEPT ![c] = "relay"]
  /\ getNonce(c)
  /\ pc' = [pc EXCEPT ![c] = "nonce"]
  /\ UNCHANGED <<initVars, otherVars, used, attempt, fees, rv, result, err, tails, keeperVars, settleVars,
                 countVars>>

\* cancelOrderGasless is called: getUserCurrentNonce answers, getNonce() is called
StartCancel(c) ==
  /\ pc[c] = "idle"
  /\ kind' = [kind EXCEPT ![c] = "cancel"]
  /\ getNonce(c)
  /\ pc' = [pc EXCEPT ![c] = "nonce"]
  /\ UNCHANGED <<initVars, otherVars, used, attempt, fees, rv, result, err, tails, keeperVars, settleVars,
                 countVars>>

\* the position and its PnL are read, the fees computed and
\* getNonceBatch(txCount) is called
ReserveBatch(c) ==
  \E p \in PositionInputs :
     /\ fees' = [fees EXCEPT ![c] = Fees(p)]
     /\ getNonceBatch(c, TxCount(Fees(p)))

\* closePositionGasless is called
StartClose(c) ==
  /\ pc[c] = "idle"
  /\ kind' = [kind EXCEPT ![c] = "close"]
  /\ ReserveBatch(c)
  /\ pc' = [pc EXCEPT ![c] = "nonce"]
  /\ UNCHANGED <<initVars, otherVars, used, attempt, rv, result, err, tails, keeperVars, settleVars,
                 countVars>>

\* a call is made and an RPC before the sequence value is requested fails
\* (estimateGas, getUserCurrentNonce, the price fetch, getPosition, calculatePnL)
StartFail(c) ==
  /\ pc[c] = "idle"
  /\ \E k \in Kinds : kind' = [kind EXCEPT ![c] = k]
  /\ Throw(c, ErrServer)
  /\ UNCHANGED <<nmVars, initVars, otherVars, used, tails, keeperVars, settleVars, histVars>>

\* the awaited promise resolved with a value: sendTransaction({... nonce}) is called
NonceGranted(c) ==
  /\ pc[c] = "nonce"
  /\ prom[c] = "value"
  /\ pc' = [pc EXCEPT ![c] = "send"]
  /\ prom' = [prom EXCEPT ![c] = "none"]
  /\ sends' = [sends EXCEPT ![c] = sends[c] + 1]
  /\ UNCHANGED <<nmVars, initVars, otherVars, used, kind, attempt, myNonce, fees, rv, result,
                 err, tails, keeperVars, settleVars, issueVars, conflicts, resyncs>>

\* the awaited promise was rejected: the catch block gets 'NonceManager not initialized'
NonceRejected(c) ==
  /\ pc[c] = "nonce"
  /\ prom[c] = "rejected"
  /\ Caught(c, ErrNotInitialized)
  /\ UNCHANGED <<nmVars, initVars, otherVars, used, kind, tails, keeperVars, settleVars, issueVars, sends,
                 conflicts>>

\* the settlement transactions closePositionGasless sends without awaiting them
NewTails(c) ==
  IF kind[c] = "close"
  THEN { [call |-> c, op |-> TailOps(fees[c])[i], nonce |-> myNonce[c] + i] :
           i \in 1..Len(TailOps(fees[c])) }
  ELSE {}

\* the ledger accepts the transaction for propagation: the call returns its handle
SendAccepted(c) ==
  /\ pc[c] = "send"
  /\ myNonce[c] \notin used
  /\ used' = used \cup {myNonce[c]}
  /\ tails' = tails \cup NewTails(c)
  /\ pc' = [pc EXCEPT ![c] = "done"]
  /\ result' = [result EXCEPT ![c] = "ok"]
  /\ attempt' = [attempt EXCEPT ![c] = 0]
  /\ fees' = [fees EXCEPT ![c] = NoFees]
  /\ UNCHANGED <<nmVars, initVars, otherVars, kind, prom, myNonce, rv, err, keeperVars, settleVars, histVars>>

\* the ledger refuses the transaction: its sequence number is taken
SendConflict(c) ==
  /\ pc[c] = "send"
  /\ myNonce[c] \in used
  /\ conflicts' = [conflicts EXCEPT ![c] = conflicts[c] + 1]
  /\ \E e \in ConflictErrors : Caught(c, e)
  /\ UNCHANGED <<nmVars, initVars, otherVars, used, kind, tails, keeperVars, settleVars, issueVars, sends>>

\* the transaction is refused for another reason, or the RPC fails
SendRejected(c) ==
  /\ pc[c] = "send"
  /\ \E e \in {ErrInsufficientFunds, ErrServer} : Caught(c, e)
  /\ UNCHANGED <<nmVars, initVars, otherVars, used, kind, tails, keeperVars, settleVars, issueVars, sends,
                 conflicts>>

\* resync(): the ledger answers the count request
ResyncRead(c) ==
  /\ pc[c] = "resyncRead"
  /\ rv' = [rv EXCEPT ![c] = PendingCount]
  /\ pc' = [pc EXCEPT ![c] = "resyncWrite"]
  /\ UNCHANGED <<nmVars, initVars, otherVars, used, kind, attempt, prom, myNonce, fees,
                 result, err, tails, keeperVars, settleVars, histVars>>

\* resync(): the count request fails; the error leaves the catch block
ResyncFail(c) ==
  /\ pc[c] = "resyncRead"
  /\ Throw(c, ErrServer)
  /\ UNCHANGED <<nmVars, initVars, otherVars, used, kind, tails, keeperVars, settleVars, histVars>>

\* resync(): this.nonce = <the count read>; return
ResyncWrite(c) ==
  /\ pc[c] = "resyncWrite"
  /\ nonce' = ResyncedNonce(nonce, rv[c])
  /\ log' = <<>>
  /\ base' = ResyncedNonce(nonce, rv[c])
  /\ owed' = Max(owed, rv[c])
  /\ solo' = IF solo = c THEN c ELSE "none"
  /\ pc' = [pc EXCEPT ![c] = "retry"]
  /\ rv' = [rv EXCEPT ![c] = NULL]
  /\ UNCHANGED <<wallet, mutex, queue, initVars, otherVars, used, kind, attempt, prom, myNonce,
                 fees, result, err, tails, keeperVars, settleVars, countVars>>

\* continue; while (attempt < MAX_RETRIES) is false: the call gives up
RetryGiveUp(c) ==
  /\ pc[c] = "retry"
  /\ ~(attempt[c] < MAX_RETRIES)
  /\ Throw(c, ErrGiveUp)
  /\ UNCHANGED <<nmVars, initVars, otherVars, used, kind, tails, keeperVars, settleVars, histVars>>

\* continue; relayTransaction calls getNonce() again; cancelOrderGasless reads
\* the user's nonce again and then calls getNonce()
RetryNonce(c) ==
  /\ pc[c] = "retry"
  /\ attempt[c] < MAX_RETRIES
  /\ kind[c] \in {"relay", "cancel"}
  /\ getNonce(c)
  /\ pc' = [pc EXCEPT ![c] = "nonce"]
  /\ UNCHANGED <<initVars, otherVars, used, kind, attempt, fees, rv, result, err, tails,
                 keeperVars, settleVars, countVars>>

\* continue; closePositionGasless runs its loop body again
RetryBatch(c) ==
  /\ pc[c] = "retry"
  /\ attempt[c] < MAX_RETRIES
  /\ kind[c] = "close"
  /\ ReserveBatch(c)
  /\ pc' = [pc EXCEPT ![c] = "nonce"]
  /\ UNCHANGED <<initVars, otherVars, used, kind, attempt, rv, result, err, tails, keeperVars, settleVars,
                 countVars>>

\* continue; an RPC of the loop body fails before the sequence value is requested
RetryFail(c) ==
  /\ pc[c] = "retry"
  /\ attempt[c] < MAX_RETRIES
  /\ kind[c] \in {"cancel", "close"}
  /\ Throw(c, ErrServer)
  /\ UNCHANGED <<nmVars, initVars, otherVars, used, kind, tails, keeperVars, settleVars, histVars>>

\* the ledger accepts a settlement transaction (its hash is logged)
TailAccepted(t) ==
  /\ t \in tails
  /\ t.nonce \notin used
  /\ used' = used \cup {t.nonce}
  /\ tails' = tails \ {t}
  /\ UNCHANGED <<nmVars, initVars, otherVars, callVars, keeperVars, settleVars, histVars>>

\* a failed settlement transaction that stops the ones still on their way
TailFailedStopsRest(t) ==
  /\ t \in tails
  /\ tails' = {}
  /\ UNCHANGED <<nmVars, initVars, otherVars, used, callVars, keeperVars, settleVars, histVars>>

\* a settlement transaction fails (the error is logged)
TailFailed(t) ==
  /\ t \in tails
  /\ tails' = tails \ {t}
  /\ UNCHANGED <<nmVars, initVars, otherVars, used, callVars, keeperVars, settleVars, histVars>>

----------------------------------------------------------------------------
(* Keeper loops: positionManager.closePosition(...) in                     *)
(* PositionMonitor.liquidatePosition, tapToTradeExecutor.executeTapToTrade *)
(* (ByKeeper) in TapToTradeExecutor.executeOrder.  Both contracts are bound *)
(* to a wallet of RELAY_PRIVATE_KEY and no nonce is passed, so the signer   *)
(* fills in the ledger's pending-inclusive count.  The model has one keeper *)
(* transaction on its way at a time.                                        *)

\* the signer populates the transaction: nonce = getTransactionCount('pending')
KeeperPopulate(k) ==
  /\ kpc = "idle"
  /\ PendingCount < MaxNonce
  /\ kn' = PendingCount
  /\ kpc' = k
  /\ UNCHANGED <<nmVars, initVars, otherVars, used, callVars, tails, histVars, settleVars>>

\* the ledger accepts the keeper's transaction
KeeperAccepted(k) ==
  /\ kpc = k
  /\ kn \notin used
  /\ used' = used \cup {kn}
  /\ kpc' = "idle"
  /\ kn' = NULL
  /\ UNCHANGED <<nmVars, initVars, otherVars, callVars, tails, histVars, settleVars>>

\* the keeper's transaction fails; the catch block logs the error
KeeperFailed(k) ==
  /\ kpc = k
  /\ kpc' = "idle"
  /\ kn' = NULL
  /\ UNCHANGED <<nmVars, initVars, otherVars, used, callVars, tails, histVars, settleVars>>

----------------------------------------------------------------------------
(* Specifications *)

\* NonceManager.init, started by the RelayService constructor
InitStep ==
  \/ InitRead
  \/ InitWrite
  \/ InitFail

\* relayTransaction and cancelOrderGasless, called by the handlers S
RelayStep(S) ==
  \E c \in S :
     \/ StartRelay(c)
     \/ StartCancel(c)
     \/ StartFail(c)
     \/ NonceGranted(c)
     \/ NonceRejected(c)
     \/ SendAccepted(c)
     \/ SendConflict(c)
     \/ SendRejected(c)
     \/ ResyncRead(c)
     \/ ResyncFail(c)
     \/ ResyncWrite(c)
     \/ RetryGiveUp(c)
     \/ RetryNonce(c)
     \/ RetryFail(c)

\* closePositionGasless, called by the handlers S, and its settlement transactions
CloseStep(S) ==
  \/ \E c \in S :
        \/ StartClose(c)
        \/ RetryBatch(c)
  \/ \E t \in tails :
        \/ TailAccepted(t)
        \/ TailFailed(t)

\* the liquidation loop and the conditional-order loop
KeeperStep ==
  \E k \in Keepers :
     \/ KeeperPopulate(k)
     \/ KeeperAccepted(k)
     \/ KeeperFailed(k)

\* the RelayService and its NonceManager, serving two requests
Next ==
  \/ InitStep
  \/ RelayStep(TwoCalls)
  \/ CloseStep(TwoCalls)

Spec ==
  Init /\ [][Next]_vars

\* relayTransaction and cancelOrderGasless, serving two requests, next to the
\* keeper loops
NextKeeper ==
  \/ InitStep
  \/ RelayStep(TwoCalls)
  \/ KeeperStep

KeeperSpec ==
  Init /\ [][NextKeeper]_vars

\* relayTransaction and cancelOrderGasless, serving three requests
NextRelay ==
  \/ InitStep
  \/ RelayStep(Calls)

RelaySpec ==
  Init /\ [][NextRelay]_vars

\* relayTransaction and cancelOrderGasless, serving two requests
NextPair ==
  \/ InitStep
  \/ RelayStep(TwoCalls)

PairSpec ==
  Init /\ [][NextPair]_vars

\* the continuation of an await on a settled promise is always run
Fairness ==
  \A c \in Calls : WF_vars(NonceGranted(c)) /\ WF_vars(NonceRejected(c))

LivePairSpec ==
  PairSpec /\ Fairness

----------------------------------------------------------------------------
(* PositionMonitor.checkPositionLiquidation, called by the scan of         *)
(* checkAllPositions for one position after the other.  The transaction    *)
(* that liquidatePosition sends is the keeper send modelled above.         *)

\* if (Date.now() - priceData.timestamp > 60000)
STALE_PRICE_MS ==
  60000

\* a force floor ten times lower
LowerFloor ==
  0 - 99000

\* if (pnlBps <= -9900n)
FORCE_LIQUIDATION_BPS ==
  0 - 9900

\* the positions getPosition returns: status 0 is Open
MonitorPositions ==
  { [isLong |-> l, entryPrice |-> 2000, size |-> a.size, collateral |-> a.collateral,
     status |-> s] :
      l \in BOOLEAN,
      a \in { [size |-> 1000, collateral |-> 100],
              [size |-> 200, collateral |-> 100],
              [size |-> 200, collateral |-> 0] },
      s \in {0, 1} }

\* the entries of currentPrices; age is Date.now() - priceData.timestamp
MonitorQuotes ==
  [price : {10, 1000, 1010, 1011, 2000, 2990}, age : {0, 60000, 60001}]

\* bigint division: the quotient is truncated toward zero (b # 0)
TruncDiv(a, b) ==
  LET q == (IF a < 0 THEN -a ELSE a) \div (IF b < 0 THEN -b ELSE b)
  IN  IF (a < 0) # (b < 0) THEN -q ELSE q

\* a PnL computed as for a short position whatever the side
PnlOfShort(p, currentPrice) ==
  TruncDiv((p.entryPrice - currentPrice) * p.size, p.entryPrice)

\* pnl = ((currentPrice - entryPrice) * size) / entryPrice, or its opposite for a short
LocalPnl(p, currentPrice) ==
  IF p.isLong
  THEN TruncDiv((currentPrice - p.entryPrice) * p.size, p.entryPrice)
  ELSE TruncDiv((p.entryPrice - currentPrice) * p.size, p.entryPrice)

\* a PnL relative to the collateral in tenths of a percent
PnlPerMille(pnl, collateral) ==
  TruncDiv(pnl * 1000, collateral)

\* const pnlBps = (pnl * 10000n) / collateral
PnlBps(pnl, collateral) ==
  TruncDiv(pnl * 10000, collateral)

\* a bigint division by zero throws a RangeError
DivisionThrows(p) ==
  p.entryPrice = 0 \/ p.collateral = 0

\* a scan that also passes over the positions whose force-close failed before
NotOpenOrFailedBefore(p) ==
  p.status # 0 \/ sid \in sfailed

\* if (!position || position.status !== 0) continue, for a position that was read
NotOpen(p) ==
  p.status # 0

\* a verdict that counts a failed call as true
FailedVerdictTrue ==
  TRUE

\* let shouldLiquidate = false, kept when the call throws
FailedVerdict ==
  FALSE

\* the check ends without reaching the RiskManager call
CheckEnds(out) ==
  /\ mpc' = "idle"
  /\ mout' = out
  /\ mpnl' = 0
  /\ mbps' = 0

\* checkAllPositions reads a position and, when it is Open, calls
\* checkPositionLiquidation, which runs up to the RiskManager call
CheckPosition ==
  /\ mpc = "idle"
  /\ \E p \in MonitorPositions, q \in MonitorQuotes \cup {NoQuote} :
        /\ mpos' = p
        /\ mquote' = q
        /\ mverdict' = "none"
        /\ IF NotOpen(p)
           THEN CheckEnds("skipped")
           ELSE IF q = NoQuote
           THEN CheckEnds("skipped")
           ELSE IF q.age > STALE_PRICE_MS
           THEN CheckEnds("skipped")
           ELSE IF DivisionThrows(p)
           THEN CheckEnds("error")
           ELSE /\ mpnl' = LocalPnl(p, q.price)
                /\ mbps' = PnlBps(LocalPnl(p, q.price), p.collateral)
                /\ mpc' = "risk"
                /\ mout' = "none"
  /\ UNCHANGED <<relayVars, priceVars, loopVars, orderVars>>

\* steps 3 and 4: the force floor, then liquidatePosition when indicated
Decide(shouldLiquidate) ==
  IF (IF mbps <= FORCE_LIQUIDATION_BPS THEN TRUE ELSE shouldLiquidate)
  THEN /\ mpc' = "liquidate"
       /\ mout' = "submitted"
  ELSE /\ mpc' = "idle"
       /\ mout' = "kept"

\* riskManager.shouldLiquidate(...) answers v
RiskAnswers(v) ==
  /\ mpc = "risk"
  /\ mverdict' = (IF v THEN "true" ELSE "false")
  /\ Decide(v)
  /\ UNCHANGED <<relayVars, priceVars, loopVars, orderVars, mpos, mquote, mpnl, mbps>>

\* riskManager.shouldLiquidate(...) throws: logged, shouldLiquidate stays false
RiskThrows ==
  /\ mpc = "risk"
  /\ mverdict' = "threw"
  /\ Decide(FailedVerdict)
  /\ UNCHANGED <<relayVars, priceVars, loopVars, orderVars, mpos, mquote, mpnl, mbps>>

\* liquidatePosition returns: the transaction was mined, or its error was logged
LiquidationReturns ==
  /\ mpc = "liquidate"
  /\ mpc' = "idle"
  /\ UNCHANGED <<relayVars, priceVars, loopVars, orderVars, mpos, mquote, mpnl, mbps, mverdict, mout>>

\* the liquidation scan
NextMonitor ==
  \/ CheckPosition /\ UNCHANGED scanVars
  \/ \E v \in BOOLEAN : RiskAnswers(v) /\ UNCHANGED scanVars
  \/ RiskThrows /\ UNCHANGED scanVars
  \/ LiquidationReturns /\ UNCHANGED scanVars

MonitorSpec ==
  Init /\ [][NextMonitor]_vars

----------------------------------------------------------------------------
(* PythPriceService: processPriceUpdate, called for every price_update     *)
(* message of the WebSocket, and notifyPriceUpdate.  Both variants of the  *)
(* service have the same two functions.  A message carries the parsed      *)
(* price (priceRaw * 10^expo) and publish_time in seconds.                 *)

\* a staleness bound of two minutes
TwoMinutes ==
  2 * 60000

\* if (age > 60000) in processPriceUpdate
PYTH_MAX_AGE_MS ==
  60000

\* the values Date.now() takes, in ms
ClockValues ==
  {61000, 62000, 122000}

\* the price_update messages: feed "DOGE" is not a configured asset
PriceMessages ==
  [feed : PriceSymbols \cup {"DOGE"}, price : {100, 200}, publish_time : {1, 2, 62}]

\* two subscribers, such as PositionMonitor and an order executor
Callbacks ==
  {"monitor", "orders"}

\* a callback exception that is not caught
RethrowsCallbackError ==
  FALSE

\* try { callback(...) } catch (error) { logger.error(...) }
CatchesCallbackError ==
  TRUE

\* notifyPriceUpdate: the callbacks invoked, in order, when those of T throw
RECURSIVE Invoked(_, _)
Invoked(cbs, T) ==
  IF cbs = <<>>
  THEN <<>>
  ELSE <<Head(cbs)>> \o
       (IF Head(cbs) \in T /\ ~CatchesCallbackError THEN <<>> ELSE Invoked(Tail(cbs), T))

\* notifyPriceUpdate
notifyPriceUpdate(T) ==
  /\ delivered' = Invoked(priceUpdateCallbacks, T)
  /\ threw' = {cb \in T : \E i \in 1..Len(delivered') : delivered'[i] = cb}
  /\ escaped' = (threw' # {} /\ ~CatchesCallbackError)

\* processPriceUpdate returns before the cache is written
Dropped ==
  /\ delivered' = <<>>
  /\ threw' = {}
  /\ escaped' = FALSE
  /\ UNCHANGED currentPrices

\* PythPriceService.processPriceUpdate(message)
processPriceUpdate(msg) ==
  /\ pmsg' = msg
  /\ pat' = clock
  /\ pseq' = 1 - pseq
  /\ IF msg.feed \notin PriceSymbols
     THEN Dropped
     ELSE IF clock - msg.publish_time * 1000 > PYTH_MAX_AGE_MS
     THEN Dropped
     ELSE /\ currentPrices' = [currentPrices EXCEPT ![msg.feed] =
                                 [price |-> msg.price, publishTime |-> msg.publish_time * 1000]]
          /\ \E T \in SUBSET Callbacks : notifyPriceUpdate(T)
  /\ UNCHANGED <<relayVars, monitorVars, loopVars, orderVars, scanVars, connVars, streamVars, clock, priceUpdateCallbacks>>

\* a price_update message arrives on the WebSocket
MessageArrives ==
  \E msg \in PriceMessages : processPriceUpdate(msg)

\* onPriceUpdate(callback), called once by each subscriber's constructor
onPriceUpdate(cb) ==
  /\ \A i \in 1..Len(priceUpdateCallbacks) : priceUpdateCallbacks[i] # cb
  /\ priceUpdateCallbacks' = Append(priceUpdateCallbacks, cb)
  /\ UNCHANGED <<relayVars, monitorVars, loopVars, orderVars, scanVars, connVars, streamVars, clock, currentPrices, pmsg, pat, pseq, delivered,
                 threw, escaped>>

\* time passes
Tick ==
  /\ \E t \in ClockValues : t > clock /\ clock' = t
  /\ UNCHANGED <<relayVars, monitorVars, loopVars, orderVars, scanVars, connVars, streamVars, currentPrices, priceUpdateCallbacks, pmsg, pat,
                 pseq, delivered, threw, escaped>>

\* the price service and its subscribers
NextPrice ==
  \/ MessageArrives
  \/ \E cb \in Callbacks : onPriceUpdate(cb)
  \/ Tick

PriceSpec ==
  Init /\ [][NextPrice]_vars

----------------------------------------------------------------------------
(* The controller loops: start(), stop() and monitorLoop() of the          *)
(* PositionMonitor and of the TapToTradeExecutor, which are the same code. *)
(* Here a scan (checkAllPositions, or checkAndExecuteOrders followed by    *)
(* the cleanup) is in progress from its call to its return; what it does   *)
(* is modelled further down, and joined to these actions there.            *)

\* a loop condition that does not read the flag
AlwaysContinues(running) ==
  TRUE

\* while (this.isRunning)
LoopContinues(running) ==
  running

\* start(): a no-op while running; otherwise the flag is set and monitorLoop()
\* is called un-awaited (the first free activation), which calls the scan
start(k) ==
  /\ IF isRunning[k]
     THEN UNCHANGED loopVars
     ELSE /\ \E i \in Loops :
               /\ loopPc[k][i] = "none"
               /\ \A j \in Loops : j < i => loopPc[k][j] # "none"
               /\ loopPc' = [loopPc EXCEPT ![k][i] = "scan"]
          /\ isRunning' = [isRunning EXCEPT ![k] = TRUE]
          /\ lhist' = [lhist EXCEPT ![k] = "none"]
  /\ UNCHANGED <<relayVars, monitorVars, priceVars>>

\* stop(): this.isRunning = false
stop(k) ==
  /\ isRunning' = [isRunning EXCEPT ![k] = FALSE]
  /\ lhist' = [lhist EXCEPT ![k] =
                 IF \E i \in Loops : loopPc[k][i] = "scan"
                 THEN "stoppedInScan" ELSE @]
  /\ UNCHANGED <<relayVars, monitorVars, priceVars, loopPc>>

\* the scan returns and monitorLoop awaits this.sleep(this.checkInterval)
ScanEnd(k, i) ==
  /\ loopPc[k][i] = "scan"
  /\ loopPc' = [loopPc EXCEPT ![k][i] = "sleep"]
  /\ lhist' = [lhist EXCEPT ![k] = IF @ = "stoppedInScan" THEN "completed" ELSE @]
  /\ UNCHANGED <<relayVars, monitorVars, priceVars, isRunning>>

\* the timer fires: the loop condition is tested, and the next scan is called
\* or monitorLoop returns
Wake(k, i) ==
  /\ loopPc[k][i] = "sleep"
  /\ loopPc' = [loopPc EXCEPT ![k][i] =
                  IF LoopContinues(isRunning[k]) THEN "scan" ELSE "none"]
  /\ UNCHANGED <<relayVars, monitorVars, priceVars, isRunning, lhist>>

\* the controllers' loops and the calls of start() and stop()
NextLoop ==
  \/ \E k \in Controllers : start(k) /\ UNCHANGED <<orderVars, scanVars>>
  \/ \E k \in Controllers : stop(k) /\ UNCHANGED <<orderVars, scanVars>>
  \/ \E k \in Controllers, i \in Loops : ScanEnd(k, i) /\ UNCHANGED <<orderVars, scanVars>>
  \/ \E k \in Controllers, i \in Loops : Wake(k, i) /\ UNCHANGED <<orderVars, scanVars>>

LoopSpec ==
  Init /\ [][NextLoop]_vars

\* every scan returns and every timer fires
LiveLoopSpec ==
  /\ LoopSpec
  /\ \A k \in Controllers, i \in Loops :
        WF_vars((ScanEnd(k, i) \/ Wake(k, i)) /\ UNCHANGED <<orderVars, scanVars>>)

----------------------------------------------------------------------------
(* TapToTradeExecutor: checkAndExecuteOrders, executeOrder and the cleanup, *)
(* run by each activation of its monitorLoop.  The order store              *)
(* (TapToTradeService) is not part of the sources: its operations are       *)
(* modelled from the order life cycle of the specification.                 *)

\* private cleanupInterval: number = 30000
CLEANUP_INTERVAL_MS ==
  30000

\* a staleness bound of ten minutes
TenMinutes ==
  10 * 60000

\* if (Date.now() - priceData.timestamp > 60000), in checkAndExecuteOrders
ORDER_STALE_MS ==
  60000

\* BigInt(order.triggerPrice)
TRIGGER_PRICE ==
  100

\* [startTime, endTime] of the orders, in seconds
OrderWindows ==
  { [startTime |-> 61, endTime |-> 61], [startTime |-> 62, endTime |-> 122] }

\* the entries of currentPrices; age is Date.now() - priceData.timestamp
OrderQuotes ==
  [price : {99, 100, 101}, age : {0, 60000, 60001}]

\* order.nonce, a decimal string
OrderNonces ==
  {"1", "01"}

\* BigInt(order.nonce)
BigIntOf(s) ==
  IF s \in {"1", "01"} THEN 1 ELSE 0

\* what metaNonces(order.trader) returns
ChainNonces ==
  {0, 1}

\* currentNonceOnChain.toString()
NonceToString(n) ==
  <<"0", "1", "2", "3", "4", "5", "6", "7", "8", "9">>[n + 1]

\* a counter comparison that accepts every counter
AnyNonce(orderNonce, chain) ==
  TRUE

\* the negation of: if (order.nonce !== currentNonceOnChain.toString())
NonceMatches(orderNonce, chain) ==
  orderNonce = NonceToString(chain)

\* what ethers.recoverAddress returns for order.signature (<<>>: it throws)
RecoveredSigners ==
  { <<"A", "b">>, <<"c", "D">>, <<"e", "F">>, <<>> }

\* a verification that accepts every recovered address
AnySigner(recovered, hasSessionKey) ==
  recovered # <<>>

\* const isValidSigner, FALSE also when the verification throws; order.trader
\* is stored as "aB" and order.sessionKey.address, if there is one, as "Cd"
isValidSigner(recovered, hasSessionKey) ==
  /\ recovered # <<>>
  /\ \/ ToLowerCase(recovered) = ToLowerCase(<<"a", "B">>)
     \/ hasSessionKey /\ ToLowerCase(recovered) = ToLowerCase(<<"C", "d">>)

\* TapToTradeService.getPendingOrders(): the Pending orders, by id
RECURSIVE getPendingOrders(_, _)
getPendingOrders(os, o) ==
  IF o > MaxOrders THEN <<>>
  ELSE IF os[o].status = "Pending"
  THEN <<o>> \o getPendingOrders(os, o + 1)
  ELSE getPendingOrders(os, o + 1)

\* TapToTradeService.cleanupExpiredOrders(): Pending orders whose endTime has
\* passed become Expired
cleanupExpiredOrders(os, t) ==
  [o \in Orders |->
     IF os[o].status = "Pending" /\ t > os[o].endTime
     THEN [os[o] EXCEPT !.status = "Expired"] ELSE os[o]]

\* a trigger that the trigger price itself does not meet
StrictlyBeyond(isLong, currentPrice, triggerPrice) ==
  IF isLong THEN currentPrice < triggerPrice ELSE currentPrice > triggerPrice

\* shouldExecute: a long order buys low, a short order sells high
shouldExecute(isLong, currentPrice, triggerPrice) ==
  IF isLong THEN currentPrice <= triggerPrice ELSE currentPrice >= triggerPrice

\* the body of the for loop: the order passes the window and quote checks and
\* shouldExecute is true
Executes(order, now, q) ==
  /\ ~(now < order.startTime)
  /\ ~(now > order.endTime)
  /\ q # NoQuote
  /\ ~(q.age > ORDER_STALE_MS)
  /\ shouldExecute(order.isLong, q.price, TRIGGER_PRICE)

\* the for loop up to the first order that is executed: what is left of
\* pendingOrders from that order on
RECURSIVE FirstTriggered(_, _, _, _)
FirstTriggered(s, now, q, os) ==
  IF s = <<>> THEN <<>>
  ELSE IF Executes(os[Head(s)], now, q) THEN s
  ELSE FirstTriggered(Tail(s), now, q, os)

\* the orders of s the for loop went through before it reached r, the rest of s
PassedOver(s, r) ==
  {s[k] : k \in 1..(Len(s) - Len(r))}

\* the for loop runs on over the orders s, with the store in state os, until
\* executeOrder awaits signPrice (after markAsExecuting) or the loop ends
Continue(i, s, now, os) ==
  \E q \in (IF s = <<>> THEN {NoQuote} ELSE OrderQuotes \cup {NoQuote}) :
     LET r == FirstTriggered(s, now, q, os)
     IN  /\ snap' = [snap EXCEPT ![i] = r]
         /\ oseen' = IF /\ q # NoQuote
                         /\ ~(q.age > ORDER_STALE_MS)
                         /\ \E o \in PassedOver(s, r) :
                               ~(now < os[o].startTime) /\ ~(now > os[o].endTime)
                      THEN q ELSE NoQuote
         /\ IF r = <<>>
            THEN /\ apc' = [apc EXCEPT ![i] = "done"]
                 /\ orders' = os
                 /\ ostart' = NoStart
            ELSE /\ apc' = [apc EXCEPT ![i] = "sign"]
                 /\ orders' = [os EXCEPT ![Head(r)].status = "Executing"]
                 /\ ostart' = [order |-> Head(r), was |-> os[Head(r)].status,
                               at |-> clock \div 1000, now |-> now, quote |-> q]

\* checkAndExecuteOrders is called by activation i
checkAndExecuteOrders(i) ==
  /\ anow' = [anow EXCEPT ![i] = clock \div 1000]
  /\ Continue(i, getPendingOrders(orders, 1), clock \div 1000, orders)
  /\ olast' = NoPreflight
  /\ UNCHANGED lastCleanupTime

\* the scan called by the step of start() or of the timer, if it calls one
ScanCalled ==
  IF \E i \in Loops : loopPc["TapToTradeExecutor"][i] # "scan"
                      /\ loopPc'["TapToTradeExecutor"][i] = "scan"
  THEN \E i \in Loops : /\ loopPc["TapToTradeExecutor"][i] # "scan"
                        /\ loopPc'["TapToTradeExecutor"][i] = "scan"
                        /\ checkAndExecuteOrders(i)
  ELSE UNCHANGED orderVars

\* an executeOrder that returns without marking the order
LeavesExecuting(i, status, note) ==
  Continue(i, Tail(snap[i]), anow[i], orders)

\* executeOrder returns after marking the order, and the for loop runs on
Finish(i, status, note) ==
  Continue(i, Tail(snap[i]), anow[i],
           [orders EXCEPT ![Head(snap[i])].status = status,
                          ![Head(snap[i])].note = note])

\* await this.signPrice(...) resolves: metaNonces(order.trader) is called
PriceSigned(i) ==
  /\ apc[i] = "sign"
  /\ apc' = [apc EXCEPT ![i] = "nonce"]
  /\ ostart' = NoStart
  /\ oseen' = NoQuote
  /\ olast' = NoPreflight
  /\ UNCHANGED <<relayVars, monitorVars, priceVars, loopVars, scanVars,
                 orders, lastCleanupTime, snap, anow>>

\* order.sessionKey when the order has one: expiresAt in milliseconds
\* (61.5 s) and authorizedBy, the trader "aB"
SessionKeys ==
  [expiresAt : {61000 + 500}, authorizedBy : {<<"a", "B">>}]

\* an executor that always takes the keeper-authenticated path
AlwaysByKeeper(hasSessionKey) ==
  "executeTapToTradeByKeeper"

\* if (order.sessionKey) executeTapToTradeByKeeper(...) else
\* executeTapToTrade(..., order.signature, ...)
SubmitPath(hasSessionKey) ==
  IF hasSessionKey THEN "executeTapToTradeByKeeper" ELSE "executeTapToTrade"

\* await metaNonces(...) resolves: the counter check, the signature check and
\* the call of executeTapToTradeByKeeper or executeTapToTrade
NonceAnswers(i) ==
  /\ apc[i] = "nonce"
  /\ \E chain \in ChainNonces, nn \in OrderNonces,
        rec \in RecoveredSigners, sk \in SessionKeys \cup {NoSessionKey} :
        LET key == sk # NoSessionKey
            passes == NonceMatches(nn, chain) /\ isValidSigner(rec, key)
        IN
        /\ olast' = [order |-> Head(snap[i]), orderNonce |-> nn,
                     chainNonce |-> chain, recovered |-> rec, sessionKey |-> key,
                     session |-> sk,
                     path |-> IF passes THEN SubmitPath(key) ELSE ""]
        /\ IF ~NonceMatches(nn, chain)
           THEN Finish(i, "NeedsResign", "reason")
           ELSE IF ~isValidSigner(rec, key)
           THEN Finish(i, "Failed", "reason")
           ELSE /\ apc' = [apc EXCEPT ![i] = "send"]
                /\ ostart' = NoStart
                /\ oseen' = NoQuote
                /\ UNCHANGED <<orders, snap>>
  /\ UNCHANGED <<relayVars, monitorVars, priceVars, loopVars, scanVars, lastCleanupTime, anow>>

\* the awaited transaction call resolves: await tx.wait()
TxSent(i) ==
  /\ apc[i] = "send"
  /\ apc' = [apc EXCEPT ![i] = "wait"]
  /\ ostart' = NoStart
  /\ oseen' = NoQuote
  /\ olast' = NoPreflight
  /\ UNCHANGED <<relayVars, monitorVars, priceVars, loopVars, scanVars,
                 orders, lastCleanupTime, snap, anow>>

\* tx.wait() resolves: markAsExecuted
TxMined(i) ==
  /\ apc[i] = "wait"
  /\ Finish(i, "Executed", "")
  /\ olast' = NoPreflight
  /\ UNCHANGED <<relayVars, monitorVars, priceVars, loopVars, scanVars,
                 lastCleanupTime, anow>>

\* an await of executeOrder rejects: catch (error), markAsFailed
AwaitRejects(i) ==
  /\ apc[i] \in {"sign", "nonce", "send", "wait"}
  /\ Finish(i, "Failed", "reason")
  /\ olast' = NoPreflight
  /\ UNCHANGED <<relayVars, monitorVars, priceVars, loopVars, scanVars,
                 lastCleanupTime, anow>>

\* checkAndExecuteOrders returns: the cleanup when it is due, then the sleep
OrdersReturn(i) ==
  /\ apc[i] = "done"
  /\ apc' = [apc EXCEPT ![i] = "none"]
  /\ IF clock - lastCleanupTime > CLEANUP_INTERVAL_MS
     THEN /\ orders' = cleanupExpiredOrders(orders, clock \div 1000)
          /\ lastCleanupTime' = clock
     ELSE UNCHANGED <<orders, lastCleanupTime>>
  /\ ScanEnd("TapToTradeExecutor", i)
  /\ ostart' = NoStart
  /\ oseen' = NoQuote
  /\ olast' = NoPreflight
  /\ UNCHANGED <<scanVars, snap, anow>>

\* the intake path stores a new order, Pending (the first is a long order,
\* the others are short)
Intake(o) ==
  /\ orders[o].status = "None"
  /\ \E w \in OrderWindows :
        orders' = [orders EXCEPT ![o] =
                     [status |-> "Pending", startTime |-> w.startTime,
                      endTime |-> w.endTime, isLong |-> (o = 1), note |-> ""]]
  /\ ostart' = NoStart
  /\ oseen' = NoQuote
  /\ olast' = NoPreflight
  /\ UNCHANGED <<relayVars, monitorVars, priceVars, loopVars, scanVars,
                 lastCleanupTime, apc, snap, anow>>

\* the order controller, the clock, and the intake of the orders S
OrderStep(S) ==
  \/ start("TapToTradeExecutor") /\ ScanCalled /\ UNCHANGED scanVars
  \/ stop("TapToTradeExecutor") /\ UNCHANGED <<orderVars, scanVars>>
  \/ \E i \in Loops : Wake("TapToTradeExecutor", i) /\ ScanCalled /\ UNCHANGED scanVars
  \/ \E i \in Loops : PriceSigned(i)
  \/ \E i \in Loops : NonceAnswers(i)
  \/ \E i \in Loops : TxSent(i)
  \/ \E i \in Loops : TxMined(i)
  \/ \E i \in Loops : AwaitRejects(i)
  \/ \E i \in Loops : OrdersReturn(i)
  \/ \E o \in S : Intake(o)
  \/ Tick

OrderSpec ==
  Init /\ [][OrderStep(Orders)]_vars

\* the controller with one order in the store
OneOrderSpec ==
  Init /\ [][OrderStep({1})]_vars

\* every await of executeOrder settles: it resolves or it rejects
LiveOrderSpec ==
  /\ OneOrderSpec
  /\ \A i \in Loops :
        WF_vars(PriceSigned(i) \/ NonceAnswers(i) \/ TxSent(i) \/ TxMined(i) \/ AwaitRejects(i))

----------------------------------------------------------------------------
(* PositionMonitor.checkAllPositions: one scan of the ledger's positions   *)
(* by the first activation of the monitor loop.  The check of a position   *)
(* is CheckPosition and the steps after it, defined above.                 *)

\* what getPosition(id) returns for a position of status s
Position(id, s) ==
  [isLong |-> id # 3, entryPrice |-> 2000,
   size |-> IF id = 1 THEN 1000 ELSE 200,
   collateral |-> IF id = 2 THEN 0 ELSE 100,
   status |-> s]

\* a scan that an error of one position ends
AbortOnError(id, total, out) ==
  IF out = "error" THEN total + 1 ELSE id + 1

\* positionId++ of the for loop, reached by continue, by the return of the
\* check and by the catch around the body
NextId(id, total, out) ==
  id + 1

\* for (let positionId = 1; positionId <= totalPositions; positionId++)
ForLoop(n) ==
  /\ sid' = IF n > stotal THEN sid ELSE n
  /\ spc' = IF n > stotal THEN "done" ELSE "scan"

\* the body of the for loop returned, or awaits inside the check
AfterCheck ==
  IF mpc' = "idle"
  THEN ForLoop(NextId(sid, stotal, mout'))
  ELSE UNCHANGED <<sid, spc>>

\* await this.checkAllPositions() is called by the activation that begins a scan
MonitorScanCalled ==
  /\ loopPc'["PositionMonitor"][2] = "none"
  /\ IF loopPc["PositionMonitor"][1] # "scan" /\ loopPc'["PositionMonitor"][1] = "scan"
     THEN /\ spc' = "count"
          /\ sid' = 0
          /\ stotal' = 0
          /\ UNCHANGED <<ledger, sfailed>>
     ELSE UNCHANGED scanVars
  /\ UNCHANGED orderVars

\* nextPositionId answers n: totalPositions = n - 1
CountAnswers ==
  /\ spc = "count"
  /\ \E n \in 1..(MaxPositions + 1) :
        /\ stotal' = n - 1
        /\ IF n - 1 = 0
           THEN /\ spc' = "done"
                /\ sid' = 0
           ELSE /\ spc' = "scan"
                /\ sid' = 1
  /\ UNCHANGED <<relayVars, monitorVars, priceVars, loopVars, orderVars, ledger, sfailed>>

\* nextPositionId rejects: the catch of checkAllPositions logs it
CountFails ==
  /\ spc = "count"
  /\ spc' = "done"
  /\ UNCHANGED <<relayVars, monitorVars, priceVars, loopVars, orderVars, ledger, sid, stotal,
                 sfailed>>

\* getPosition(positionId) answers and the position is checked
PositionRead ==
  /\ spc = "scan"
  /\ CheckPosition
  /\ mpos' = Position(sid, ledger[sid])
  /\ AfterCheck
  /\ UNCHANGED <<ledger, stotal, sfailed>>

\* getPosition(positionId) returns null after an error: continue
ReadFails ==
  /\ spc = "scan"
  /\ mpc = "idle"
  /\ ForLoop(NextId(sid, stotal, "skipped"))
  /\ UNCHANGED <<relayVars, monitorVars, priceVars, loopVars, orderVars, ledger, stotal, sfailed>>

\* the verdict of the RiskManager arrives, or the call throws
Verdict ==
  /\ spc = "scan"
  /\ \/ \E v \in BOOLEAN : RiskAnswers(v)
     \/ RiskThrows
  /\ AfterCheck
  /\ UNCHANGED <<ledger, stotal, sfailed>>

\* liquidatePosition: the transaction is mined and the ledger closes the position
CloseAccepted ==
  /\ spc = "scan"
  /\ LiquidationReturns
  /\ ledger' = [ledger EXCEPT ![sid] = 1]
  /\ AfterCheck
  /\ UNCHANGED <<stotal, sfailed>>

\* liquidatePosition: the send or the wait rejects; the catch logs the error
CloseFails ==
  /\ spc = "scan"
  /\ LiquidationReturns
  /\ sfailed' = sfailed \cup {sid}
  /\ AfterCheck
  /\ UNCHANGED <<ledger, stotal>>

\* checkAllPositions returns and the activation goes to sleep
PositionsReturn ==
  /\ spc = "done"
  /\ spc' = "none"
  /\ ScanEnd("PositionMonitor", 1)
  /\ UNCHANGED <<orderVars, ledger, sid, stotal, sfailed>>

\* the monitor loop with its scans
NextScan ==
  \/ start("PositionMonitor") /\ MonitorScanCalled
  \/ stop("PositionMonitor") /\ UNCHANGED <<orderVars, scanVars>>
  \/ Wake("PositionMonitor", 1) /\ MonitorScanCalled
  \/ CountAnswers
  \/ CountFails
  \/ PositionRead
  \/ ReadFails
  \/ Verdict
  \/ CloseAccepted
  \/ CloseFails
  \/ PositionsReturn

ScanSpec ==
  Init /\ [][NextScan]_vars

----------------------------------------------------------------------------
(* The two controllers share no state.  ControlSpec runs either of them,   *)
(* each with one activation of its loop, from the state in which the       *)
(* other has not been started.                                             *)

\* the TapToTradeExecutor has not been started and holds no order
ExecutorIdle ==
  /\ ~isRunning["TapToTradeExecutor"]
  /\ \A i \in Loops : loopPc["TapToTradeExecutor"][i] = "none"
  /\ \A o \in Orders : orders[o] = NoOrder
  /\ lastCleanupTime = 0
  /\ clock = 61000

\* the PositionMonitor has not been started
MonitorIdle ==
  /\ ~isRunning["PositionMonitor"]
  /\ \A i \in Loops : loopPc["PositionMonitor"][i] = "none"
  /\ spc = "none"
  /\ sid = 0
  /\ stotal = 0
  /\ mout = "none"
  /\ sfailed = {}

NextControl ==
  \/ ExecutorIdle /\ NextScan
  \/ MonitorIdle /\ OrderStep(Orders) /\ loopPc'["TapToTradeExecutor"][2] = "none"

ControlSpec ==
  Init /\ [][NextControl]_vars

----------------------------------------------------------------------------
(* PythPriceService: the WebSocket, its reconnects and shutdown().  A new   *)
(* socket is only created after the one before it has closed or failed to  *)
(* be constructed, so one socket is alive at a time.                       *)

\* private maxReconnectAttempts = 5
maxReconnectAttempts ==
  5

\* a delay that does not grow
FixedDelay(attempts) ==
  5000

\* const delay = 5000 * this.reconnectAttempts
ReconnectDelay(attempts) ==
  5000 * attempts

\* attemptReconnect(), with the timers ts pending
attemptReconnect(ts) ==
  IF reconnectAttempts >= maxReconnectAttempts
  THEN /\ timers' = ts
       /\ UNCHANGED <<reconnectAttempts, consec>>
  ELSE /\ reconnectAttempts' = reconnectAttempts + 1
       /\ timers' = ts \cup {ReconnectDelay(reconnectAttempts + 1)}
       /\ consec' = consec + 1

\* connectPythWebSocket(), with the timers ts pending: the socket is created
\* and connects, or new WebSocket throws and the catch calls attemptReconnect
connectPythWebSocket(ts) ==
  \/ /\ pythWs' = TRUE
     /\ wsState' = "connecting"
     /\ timers' = ts
     /\ UNCHANGED <<reconnectAttempts, consec>>
  \/ /\ wsState' = "none"
     /\ attemptReconnect(ts)
     /\ UNCHANGED pythWs

\* initialize() calls connectPythWebSocket
initialize ==
  /\ wsState = "new"
  /\ ~shut
  /\ connectPythWebSocket(timers)
  /\ UNCHANGED <<relayVars, monitorVars, loopVars, orderVars, scanVars, streamVars, clock, currentPrices,
                 priceUpdateCallbacks, pmsg, pat, pseq, delivered, threw, escaped, shut>>

\* the 'open' event of the socket
SocketOpens ==
  /\ wsState = "connecting"
  /\ wsState' = "open"
  /\ reconnectAttempts' = 0
  /\ consec' = 0
  /\ UNCHANGED <<relayVars, monitorVars, loopVars, orderVars, scanVars, streamVars, clock, currentPrices,
                 priceUpdateCallbacks, pmsg, pat, pseq, delivered, threw, escaped, pythWs,
                 timers, shut>>

\* the 'close' event of the socket: after a failed handshake, a disconnect or
\* a close() call
SocketCloses ==
  /\ wsState \in {"connecting", "open", "closing"}
  /\ wsState' = "closed"
  /\ attemptReconnect(timers)
  /\ UNCHANGED <<relayVars, monitorVars, loopVars, orderVars, scanVars, streamVars, clock, currentPrices,
                 priceUpdateCallbacks, pmsg, pat, pseq, delivered, threw, escaped, pythWs,
                 shut>>

\* the timer of attemptReconnect fires
TimerFires ==
  /\ \E d \in timers : connectPythWebSocket(timers \ {d})
  /\ UNCHANGED <<relayVars, monitorVars, loopVars, orderVars, scanVars, streamVars, clock, currentPrices,
                 priceUpdateCallbacks, pmsg, pat, pseq, delivered, threw, escaped, shut>>

\* PythPriceService.shutdown()
shutdown ==
  /\ wsState # "new"
  /\ ~shut
  /\ shut' = TRUE
  /\ IF pythWs
     THEN /\ wsState' = (IF wsState \in {"connecting", "open"} THEN "closing" ELSE wsState)
          /\ pythWs' = FALSE
     ELSE UNCHANGED <<pythWs, wsState>>
  /\ priceUpdateCallbacks' = <<>>
  /\ currentPrices' = [s \in PriceSymbols |-> NoPrice]
  /\ UNCHANGED <<relayVars, monitorVars, loopVars, orderVars, scanVars, streamVars, clock, pmsg, pat, pseq,
                 delivered, threw, escaped, reconnectAttempts, timers, consec>>

\* the service, its socket and its subscribers
NextConn ==
  \/ initialize
  \/ SocketOpens
  \/ SocketCloses
  \/ TimerFires
  \/ shutdown
  \/ wsState = "open" /\ MessageArrives
  \/ \E cb \in Callbacks : onPriceUpdate(cb)

ConnSpec ==
  Init /\ [][NextConn]_vars

----------------------------------------------------------------------------
(* RelayService.closePositionGasless with awaited settlement: the close    *)
(* transaction is sent and awaited, then one settlement transaction        *)
(* (coverPayout or settleTrade) is sent, each with its own getNonce(), all *)
(* inside the try block of the retry loop.                                 *)

\* closePositionGasless is called: the price and the position are read and
\* getNonce() is called for the close transaction
SettleStart(c) ==
  /\ pc[c] = "idle"
  /\ kind' = [kind EXCEPT ![c] = "close"]
  /\ stage' = [stage EXCEPT ![c] = "close"]
  /\ getNonce(c)
  /\ pc' = [pc EXCEPT ![c] = "nonce"]
  /\ UNCHANGED <<initVars, otherVars, used, attempt, fees, rv, result, err, tails, keeperVars,
                 closes, countVars>>

\* the ledger accepts the close transaction; closeTx.wait() is awaited
CloseTxSent(c) ==
  /\ pc[c] = "send"
  /\ stage[c] = "close"
  /\ myNonce[c] \notin used
  /\ used' = used \cup {myNonce[c]}
  /\ closes' = [closes EXCEPT ![c] = closes[c] + 1]
  /\ pc' = [pc EXCEPT ![c] = "wait"]
  /\ UNCHANGED <<nmVars, initVars, otherVars, kind, attempt, prom, myNonce, fees, rv, result,
                 err, tails, keeperVars, stage, histVars>>

\* the close transaction is mined, the buffer balance is read and getNonce()
\* is called for the settlement transaction
CloseMined(c) ==
  /\ pc[c] = "wait"
  /\ stage' = [stage EXCEPT ![c] = "settle"]
  /\ getNonce(c)
  /\ pc' = [pc EXCEPT ![c] = "nonce"]
  /\ UNCHANGED <<initVars, otherVars, used, kind, attempt, fees, rv, result, err, tails,
                 keeperVars, closes, countVars>>

\* closeTx.wait() rejects (the transaction reverted) or a read after it fails
CloseWaitFails(c) ==
  /\ pc[c] = "wait"
  /\ Caught(c, ErrServer)
  /\ UNCHANGED <<nmVars, initVars, otherVars, used, kind, tails, keeperVars, settleVars,
                 issueVars, sends, conflicts>>

\* the ledger accepts the settlement transaction: the call returns
SettleTxSent(c) ==
  /\ pc[c] = "send"
  /\ stage[c] = "settle"
  /\ myNonce[c] \notin used
  /\ used' = used \cup {myNonce[c]}
  /\ pc' = [pc EXCEPT ![c] = "done"]
  /\ result' = [result EXCEPT ![c] = "ok"]
  /\ attempt' = [attempt EXCEPT ![c] = 0]
  /\ UNCHANGED <<nmVars, initVars, otherVars, kind, prom, myNonce, fees, rv, err, tails,
                 keeperVars, settleVars, histVars>>

\* continue; the loop body runs again from its first statement
SettleRetry(c) ==
  /\ pc[c] = "retry"
  /\ attempt[c] < MAX_RETRIES
  /\ stage[c] # "none"
  /\ stage' = [stage EXCEPT ![c] = "close"]
  /\ getNonce(c)
  /\ pc' = [pc EXCEPT ![c] = "nonce"]
  /\ UNCHANGED <<initVars, otherVars, used, kind, attempt, fees, rv, result, err, tails,
                 keeperVars, closes, countVars>>

\* closePositionGasless with awaited settlement, called by the handlers S
SettleStep(S) ==
  \E c \in S :
     \/ SettleStart(c)
     \/ StartFail(c)
     \/ NonceGranted(c)
     \/ NonceRejected(c)
     \/ CloseTxSent(c)
     \/ CloseMined(c)
     \/ CloseWaitFails(c)
     \/ SettleTxSent(c)
     \/ SendConflict(c)
     \/ SendRejected(c)
     \/ ResyncRead(c)
     \/ ResyncFail(c)
     \/ ResyncWrite(c)
     \/ RetryGiveUp(c)
     \/ SettleRetry(c)
     \/ RetryFail(c)

\* two closePositionGasless calls next to the start of the NonceManager
NextSettle ==
  \/ InitStep
  \/ SettleStep(TwoCalls)

SettleSpec ==
  Init /\ [][NextSettle]_vars

----------------------------------------------------------------------------
(* StabilityFundStreamer: start(), stop(), the interval timer and the      *)
(* activations of streamToVault().  An activation is in progress from the  *)
(* statement that sets isStreaming to its finally block.                   *)

\* a guard that never finds a stream in progress
NeverBusy(streaming) ==
  FALSE

\* if (this.isStreaming) { ...; return; }
Busy(streaming) ==
  streaming

\* what the streamer leaves alone in the RelayService and its NonceManager
relayRest ==
  <<wallet, mutex, queue, initVars, callVars, tails, keeperVars, settleVars, histVars>>

\* what the streamer leaves alone outside the RelayService
streamRest ==
  <<monitorVars, loopVars, orderVars, scanVars, clock, currentPrices, priceUpdateCallbacks,
    pmsg, pat, pseq, delivered, threw, escaped, connVars>>

\* finally { this.isStreaming = false; }
Finally(s) ==
  /\ isStreaming' = FALSE
  /\ runPc' = [runPc EXCEPT ![s] = "none"]
  /\ snonce' = [snonce EXCEPT ![s] = NULL]
  /\ lastSkip' = FALSE

\* triggerStream(trigger) has passed its isRunning test: streamToVault(trigger)
\* runs to its first await, or returns at once while a stream is in progress
streamToVault ==
  \E s \in Loops :
     /\ runPc[s] = "none"
     /\ \A t \in Loops : t < s => runPc[t] # "none"
     /\ IF Busy(isStreaming)
        THEN /\ lastSkip' = TRUE
             /\ UNCHANGED <<isStreaming, runPc, snonce>>
        ELSE /\ isStreaming' = TRUE
             /\ runPc' = [runPc EXCEPT ![s] = "reads"]
             /\ lastSkip' = FALSE
             /\ UNCHANGED snonce

\* StabilityFundStreamer.start(): a no-op while running, else the flag is set,
\* triggerStream('startup') is called and the interval timer is set
StreamerStart ==
  /\ PendingCount < MaxNonce
  /\ NotInitialized(nonce) \/ nonce < MaxNonce
  /\ IF streamerRunning
     THEN /\ lastSkip' = FALSE
          /\ UNCHANGED <<streamerRunning, isStreaming, runPc, snonce>>
     ELSE /\ streamerRunning' = TRUE
          /\ streamToVault
  /\ UNCHANGED <<relayVars, streamRest>>

\* StabilityFundStreamer.stop(): the timer is cleared and the flag reset
StreamerStop ==
  /\ streamerRunning' = FALSE
  /\ lastSkip' = FALSE
  /\ UNCHANGED <<relayVars, streamRest, isStreaming, runPc, snonce>>

\* the interval timer fires: triggerStream('interval')
IntervalFires ==
  /\ streamerRunning
  /\ PendingCount < MaxNonce
  /\ NotInitialized(nonce) \/ nonce < MaxNonce
  /\ streamToVault
  /\ UNCHANGED <<relayVars, streamRest, streamerRunning>>

\* lastStreamAt and streamInterval answer: the interval has not passed (return),
\* or it has, or the read failed, and the balance is requested
IntervalAnswers(s) ==
  /\ runPc[s] = "reads"
  /\ \/ Finally(s)
     \/ /\ runPc' = [runPc EXCEPT ![s] = "balance"]
        /\ lastSkip' = FALSE
        /\ UNCHANGED <<isStreaming, snonce>>
  /\ UNCHANGED <<relayVars, streamRest, streamerRunning>>

\* the balance answers: zero (return), or not, or unknown, and tryGetNonce()
\* calls getNonce(), whose executor runs at once
BalanceAnswers(s) ==
  /\ runPc[s] = "balance"
  /\ \/ /\ Finally(s)
        /\ UNCHANGED relayVars
     \/ /\ runPc' = [runPc EXCEPT ![s] = "nonce"]
        /\ lastSkip' = FALSE
        /\ IF mutex \/ NotInitialized(nonce)
           THEN UNCHANGED <<nonce, snonce>>
           ELSE /\ nonce' = NextNonce(nonce)
                /\ snonce' = [snonce EXCEPT ![s] = nonce]
        /\ UNCHANGED <<isStreaming, used, relayRest>>
  /\ UNCHANGED <<streamRest, streamerRunning>>

\* tryGetNonce() returns the value, or undefined when getNonce() was rejected,
\* and stabilityFund.streamToVault(txOptions) is called
StreamNonceReturns(s) ==
  /\ runPc[s] = "nonce"
  /\ ~mutex
  /\ runPc' = [runPc EXCEPT ![s] = "send"]
  /\ snonce' = [snonce EXCEPT ![s] = IF @ = NULL THEN PendingCount ELSE @]
  /\ lastSkip' = FALSE
  /\ UNCHANGED <<relayVars, streamRest, streamerRunning, isStreaming>>

\* the ledger accepts the transaction and tx.wait() is awaited; or it refuses
\* it: a sequence conflict calls tryResyncNonce(), another error goes to finally
StreamSent(s) ==
  /\ runPc[s] = "send"
  /\ \/ /\ snonce[s] \notin used
        /\ used' = used \cup {snonce[s]}
        /\ runPc' = [runPc EXCEPT ![s] = "wait"]
        /\ lastSkip' = FALSE
        /\ UNCHANGED <<isStreaming, snonce>>
     \/ /\ snonce[s] \in used
        /\ runPc' = [runPc EXCEPT ![s] = IF wallet THEN "resync" ELSE "none"]
        /\ isStreaming' = (wallet /\ isStreaming)
        /\ snonce' = [snonce EXCEPT ![s] = NULL]
        /\ lastSkip' = FALSE
        /\ UNCHANGED used
     \/ /\ Finally(s)
        /\ UNCHANGED used
  /\ UNCHANGED <<nonce, relayRest, streamRest, streamerRunning>>

\* tx.wait() resolves or rejects
StreamMined(s) ==
  /\ runPc[s] = "wait"
  /\ Finally(s)
  /\ UNCHANGED <<relayVars, streamRest, streamerRunning>>

\* resync() inside tryResyncNonce(): the count is written, or the read fails
StreamResynced(s) ==
  /\ runPc[s] = "resync"
  /\ Finally(s)
  /\ \/ nonce' = ResyncedNonce(nonce, PendingCount)
     \/ UNCHANGED nonce
  /\ UNCHANGED <<used, relayRest, streamRest, streamerRunning>>

\* the streamer next to the start of the NonceManager
NextStream ==
  \/ InitStep
  \/ StreamerStart
  \/ StreamerStop
  \/ IntervalFires
  \/ \E s \in Loops :
        \/ IntervalAnswers(s)
        \/ BalanceAnswers(s)
        \/ StreamNonceReturns(s)
        \/ StreamSent(s)
        \/ StreamMined(s)
        \/ StreamResynced(s)

StreamSpec ==
  Init /\ [][NextStream]_vars

----------------------------------------------------------------------------
(* Claims *)

\* C1: N getNonce() calls made by concurrent callers with no resync() in
\* between return exactly initial, initial+1, ..., initial+N-1, and the i-th call
\* in invocation order receives initial+i-1.
C1_GapFreeInCallOrder ==
  \A i \in 1..Len(log) :
     (\A j \in 1..i : log[j].op = "next") =>
        /\ log[i].v = base + (i - 1)
        /\ myNonce[log[i].call] \in {NULL, log[i].v}

\* three concurrent callers have called getNonce() after init() and before any
\* resync(), and each awaits or holds its value
C1_Witness ==
  /\ initPc = "done"
  /\ Len(log) = 3
  /\ \A i \in 1..3 : log[i].op = "next" /\ myNonce[log[i].call] = log[i].v
  /\ \A c \in Calls : resyncs[c] = 0 /\ pc[c] \in {"nonce", "send"}

\* C2: submissions that retry after a sequence conflict, each having called
\* resync() and then getNonce(), are never issued the same value for their
\* retries, whatever the interleaving of their resync() and getNonce() calls.
C2_RetriesGetDistinctValues ==
  \A c, d \in Calls :
     ( /\ c # d
       /\ conflicts[c] >= 1 /\ conflicts[d] >= 1
       /\ attempt[c] >= 1 /\ attempt[d] >= 1
       /\ pc[c] \in {"nonce", "send"} /\ pc[d] \in {"nonce", "send"}
       /\ myNonce[c] # NULL /\ myNonce[d] # NULL )
     => myNonce[c] # myNonce[d]

\* C3: getNonceBatch(k) returns the counter value v and advances the counter by
\* k in one step: with no resync in between the next call is issued v+k, and
\* no other call is issued any of v..v+k-1.
C3_BatchIsAtomic ==
  \A i \in 1..Len(log) :
     log[i].op = "batch" =>
        /\ myNonce[log[i].call] \in {NULL, log[i].v}
        /\ IF i < Len(log)
           THEN log[i + 1].v = log[i].v + log[i].k
           ELSE nonce = log[i].v + log[i].k
        /\ \A j \in 1..Len(log) :
              j # i => \/ log[j].v + log[j].k <= log[i].v
                       \/ log[i].v + log[i].k <= log[j].v

\* a batch of several values was reserved by one call and the next getNonce()
\* of the other call was issued the value after the batch
C3_Witness ==
  \E i \in 1..Len(log) :
     /\ log[i].op = "batch"
     /\ log[i].k >= 2
     /\ i < Len(log)
     /\ log[i + 1].op = "next"
     /\ log[i + 1].call # log[i].call
     /\ log[i + 1].v = log[i].v + log[i].k

\* C4: the first getNonce() that runs after a resync() completed returns a
\* value >= the pending-inclusive count the ledger reported to that resync.
C4_FirstNonceAfterResync ==
  [][(Len(log') = Len(log) + 1 /\ owed # NULL) => log'[Len(log')].v >= owed]_vars

C6_ConflictResyncRetry ==
  [][\A c \in Calls :
        /\ sends'[c] <= 3
        /\ conflicts'[c] # conflicts[c] =>
              /\ conflicts'[c] = conflicts[c] + 1
              /\ resyncs'[c] = resyncs[c] + 1
              /\ pc'[c] = "resyncRead"
        /\ (pc[c] = "retry" /\ pc'[c] = "nonce") =>
              /\ prom'[c] = "value"
              /\ myNonce'[c] = nonce
              /\ nonce' = nonce + 1
        /\ (pc[c] = "retry" /\ conflicts[c] >= 3) =>
              /\ pc'[c] \in {"retry", "done"}
              /\ pc'[c] = "done" => result'[c] = "fail" /\ err'[c] = ErrGiveUp
        /\ (pc'[c] = "done" /\ conflicts'[c] >= 3) => result'[c] = "fail"
    ]_vars

\* a call whose three sends all met a sequence conflict has given up
C6_Witness ==
  \E c \in Calls :
     /\ pc[c] = "done"
     /\ sends[c] = 3
     /\ conflicts[c] = 3
     /\ resyncs[c] = 3
     /\ result[c] = "fail"
     /\ err[c] = ErrGiveUp

\* C7: an error that is not a ledger sequence conflict, such as 'NonceManager
\* not initialized', is reported at once: resync() is called only after a
\* sequence conflict.
C7_ResyncOnlyAfterConflict ==
  \A c \in Calls : resyncs[c] <= conflicts[c]

\* C8: a call whose first two sends met a sequence conflict and whose third was
\* accepted returns the handle having called resync() exactly twice; when no
\* other caller used the NonceManager meanwhile, the counter is the accepted
\* value + 1.
C8_TwoConflictsThenSuccess ==
  \A c \in Calls :
     (pc[c] = "done" /\ result[c] = "ok" /\ conflicts[c] = 2 /\ sends[c] = 3) =>
        /\ resyncs[c] = 2
        /\ myNonce[c] \in used
        /\ solo = c => nonce = myNonce[c] + 1

\* a call was accepted at its third send after two conflicts, with no other
\* caller of the NonceManager since it began
C8_Witness ==
  \E c \in Calls :
     /\ pc[c] = "done"
     /\ result[c] = "ok"
     /\ conflicts[c] = 2
     /\ sends[c] = 3
     /\ solo = c

\* C9: a transaction of the liquidation loop or of the conditional-order loop
\* never carries the sequence number of a transaction RelayService is sending
\* at the same time.
C9_KeeperNeverCollides ==
  \A c \in Calls :
     (kpc # "idle" /\ pc[c] = "send") => kn # myNonce[c]

\* C10: a value carried by a transaction the ledger accepted is never issued
\* again by getNonce()/getNonceBatch().
C10_AcceptedValueNotReissued ==
  [][Len(log') = Len(log) + 1 =>
       \A n \in log'[Len(log')].v .. (log'[Len(log')].v + log'[Len(log')].k - 1) :
          n \notin used]_vars

\* C11: while the counter is null, getNonce() and getNonceBatch(k) are rejected
\* ('NonceManager not initialized', which the caller's catch block receives),
\* hand no value to the caller and leave the counter unchanged; with a counter
\* they are never rejected.
C11_UninitializedIsRejected ==
  [][\A c \in Calls :
        (pc[c] # "nonce" /\ pc'[c] = "nonce") =>
           IF nonce = NULL
           THEN /\ prom'[c] = "rejected"
                /\ myNonce'[c] = NULL
                /\ nonce' = NULL
                /\ log' = log
           ELSE /\ prom'[c] = "value"
                /\ myNonce'[c] = nonce
    ]_vars

\* getNonce() and getNonceBatch() were both called before init() wrote the
\* counter, and both callers await a rejected promise
C11_Witness ==
  /\ nonce = NULL
  /\ \E c, d \in Calls :
        /\ kind[c] = "close" /\ kind[d] # "close"
        /\ pc[c] = "nonce" /\ pc[d] = "nonce"
        /\ prom[c] = "rejected" /\ prom[d] = "rejected"
        /\ myNonce[c] = NULL /\ myNonce[d] = NULL

\* C12: after the ledger read of init() failed, RelayService sends no
\* transaction.
C12_NoSendAfterFailedInit ==
  \A c \in Calls : initPc = "failed" => sends[c] = 0

\* C13: closePositionGasless reserves with one getNonceBatch call as many
\* values as it has transactions to send (the close and one for each positive
\* amount among treasury fee, relayer fee, refund); the close carries
\* startNonce and the tails carry the following values of the batch in the
\* order treasury fee, relayer fee, refund, each value once and none left over.
C13_BatchMatchesSends ==
  [][\A c \in Calls :
        LET ops == {x \in {"treasury", "relayer", "refund"} : fees[c][x] > 0}
            opsNew == {x \in {"treasury", "relayer", "refund"} : fees'[c][x] > 0}
            rank == [treasury |-> 1, relayer |-> 2, refund |-> 3]
            new == tails' \ tails
        IN  /\ (kind'[c] = "close" /\ pc[c] # "nonce" /\ pc'[c] = "nonce"
                  /\ prom'[c] = "value") =>
                 /\ Len(log') = Len(log) + 1
                 /\ log'[Len(log')] = [call |-> c, v |-> myNonce'[c],
                                       k |-> 1 + Cardinality(opsNew), op |-> "batch"]
            /\ (kind[c] = "close" /\ pc[c] = "nonce" /\ pc'[c] = "send") =>
                 /\ myNonce'[c] = myNonce[c]
                 /\ fees'[c] = fees[c]
            /\ (kind[c] = "close" /\ pc[c] = "send" /\ pc'[c] = "done"
                  /\ result'[c] = "ok") =>
                 /\ used' = used \cup {myNonce[c]}
                 /\ myNonce[c] \notin used
                 /\ \A t \in new : t.call = c
                 /\ {t.op : t \in new} = ops
                 /\ {t.nonce : t \in new} =
                       (myNonce[c] + 1)..(myNonce[c] + Cardinality(ops))
                 /\ Cardinality(new) = Cardinality(ops)
                 /\ \A s, t \in new :
                       rank[s.op] < rank[t.op] <=> s.nonce < t.nonce
    ]_vars

\* a close was accepted with startNonce and its three settlement transactions
\* are on their way with the three following values
C13_Witness ==
  \E c \in Calls :
     /\ kind[c] = "close" /\ pc[c] = "done" /\ result[c] = "ok"
     /\ myNonce[c] \in used
     /\ [call |-> c, op |-> "treasury", nonce |-> myNonce[c] + 1] \in tails
     /\ [call |-> c, op |-> "relayer", nonce |-> myNonce[c] + 2] \in tails
     /\ [call |-> c, op |-> "refund", nonce |-> myNonce[c] + 3] \in tails

\* C14: when the close transaction of closePositionGasless fails to send, no
\* fee or refund transaction is sent; when a fee or refund transaction fails,
\* nothing else happens: the call keeps the handle it returned, the other
\* settlement transactions stay on their way, and no retry or resync follows.
C14_PartialFailurePolicy ==
  [][/\ \A c \in Calls :
           (kind[c] = "close" /\ pc[c] = "send" /\ pc'[c] # "send"
              /\ result'[c] # "ok") => tails' = tails
     /\ (tails' # tails /\ used' = used) =>
           /\ \E t \in tails : tails' = tails \ {t}
           /\ UNCHANGED <<pc, result, err, attempt, myNonce, nonce, sends, resyncs>>
    ]_vars

\* a close call has returned its handle, one of its settlement transactions
\* has failed and another is still on its way
C14_Witness ==
  \E c \in Calls :
     /\ kind[c] = "close" /\ pc[c] = "done" /\ result[c] = "ok"
     /\ resyncs[c] = 0
     /\ [call |-> c, op |-> "treasury", nonce |-> myNonce[c] + 1] \notin tails
     /\ myNonce[c] + 1 \notin used
     /\ [call |-> c, op |-> "relayer", nonce |-> myNonce[c] + 2] \in tails

\* C15: an Open position with a fresh quote whose local pnlBps =
\* pnl*10000/collateral is <= -9900 is force-closed whatever
\* RiskManager.shouldLiquidate answers, and also when it throws: the check
\* never ends with the position kept, skipped or in error.
C15_ForceFloor ==
  ( /\ mpos.status = 0
    /\ mquote # NoQuote
    /\ mquote.age <= 60000
    /\ mpos.collateral > 0
    /\ TruncDiv(LocalPnl(mpos, mquote.price) * 10000, mpos.collateral) <= -9900 )
  => /\ mbps = TruncDiv(mpnl * 10000, mpos.collateral)
     /\ mbps <= -9900
     /\ \/ mpc = "risk" /\ mout = "none"
        \/ mout = "submitted" /\ mverdict \in {"true", "false", "threw"}

\* a position exactly at the floor was force-closed although the RiskManager
\* answered false
C15_Witness ==
  /\ mpos.status = 0
  /\ mbps = -9900
  /\ mverdict = "false"
  /\ mout = "submitted"
  /\ mpc = "liquidate"

\* C16, as stated: for the long position entryPrice 2000, size 1000,
\* collateral 100 at price 1000 the check computes PnL -500 and pnlBps -5000,
\* and with the RiskManager answering false the position is kept.
C16_ScenarioAsStated ==
  ( /\ mpos = [isLong |-> TRUE, entryPrice |-> 2000, size |-> 1000,
               collateral |-> 100, status |-> 0]
    /\ mquote # NoQuote /\ mquote.price = 1000 /\ mquote.age <= 60000 )
  => /\ mpnl = -500
     /\ mbps = -5000
     /\ mverdict = "false" => mout = "kept"

\* C16, amended: for that position at price 1000 the check computes PnL -500
\* and pnlBps -50000 (-500% of the collateral), which is below the floor, so
\* the position is force-closed whatever the RiskManager answers.
C16_ScenarioAmended ==
  ( /\ mpos = [isLong |-> TRUE, entryPrice |-> 2000, size |-> 1000,
               collateral |-> 100, status |-> 0]
    /\ mquote # NoQuote /\ mquote.price = 1000 /\ mquote.age <= 60000 )
  => /\ mpnl = -500
     /\ mbps = -50000
     /\ mbps <= -9900
     /\ mverdict # "none" => mout = "submitted"

\* the position of the scenario was checked at price 1000 and force-closed
\* after the RiskManager answered false
C16_Witness ==
  /\ mpos = [isLong |-> TRUE, entryPrice |-> 2000, size |-> 1000,
             collateral |-> 100, status |-> 0]
  /\ mquote.price = 1000
  /\ mverdict = "false"
  /\ mout = "submitted"

\* C17, as stated: for the same position at price 10 the check computes a
\* pnlBps of about -9950 (within 1% of it), and the position is force-closed
\* whatever the RiskManager answers.
C17_ScenarioAsStated ==
  ( /\ mpos = [isLong |-> TRUE, entryPrice |-> 2000, size |-> 1000,
               collateral |-> 100, status |-> 0]
    /\ mquote # NoQuote /\ mquote.price = 10 /\ mquote.age <= 60000 )
  => /\ mbps \in (-10050)..(-9850)
     /\ mverdict # "none" => mout = "submitted"

\* C17, amended: for the same position at price 10 the check computes PnL
\* -995 and pnlBps -99500, at or below the -9900 floor, and the position is
\* force-closed whatever the RiskManager answers.
C17_ScenarioAmended ==
  ( /\ mpos = [isLong |-> TRUE, entryPrice |-> 2000, size |-> 1000,
               collateral |-> 100, status |-> 0]
    /\ mquote # NoQuote /\ mquote.price = 10 /\ mquote.age <= 60000 )
  => /\ mpnl = -995
     /\ mbps = -99500
     /\ mbps <= -9900
     /\ mverdict # "none" => mout = "submitted"

\* the position of the scenario was checked at price 10 and force-closed after
\* the RiskManager call threw
C17_Witness ==
  /\ mpos = [isLong |-> TRUE, entryPrice |-> 2000, size |-> 1000,
             collateral |-> 100, status |-> 0]
  /\ mquote.price = 10
  /\ mverdict = "threw"
  /\ mout = "submitted"

\* C18: for every symbol the publishTime of the stored quote never decreases:
\* an update older than the stored quote is not stored.
C18_PublishTimeNeverDecreases ==
  [][\A s \in PriceSymbols :
        currentPrices[s] # NoPrice =>
           currentPrices'[s].publishTime >= currentPrices[s].publishTime]_vars

\* C19: a price update whose publishTime is more than 60 s older than the local
\* clock at its arrival is dropped: no stored quote changes and no subscriber
\* is invoked.
C19_StaleUpdateIsDropped ==
  [][( /\ <<pmsg', pat', pseq'>> # <<pmsg, pat, pseq>>
       /\ pat' = clock
       /\ pat' - pmsg'.publish_time * 1000 > 60000 )
     => /\ currentPrices' = currentPrices
        /\ delivered' = <<>>
        /\ threw' = {}]_vars

\* an update 61 s old arrived for a symbol that has a quote and a subscriber:
\* the quote is still the one stored before and nobody was invoked
C19_Witness ==
  /\ pmsg # NoMessage
  /\ pmsg.feed \in PriceSymbols
  /\ pat - pmsg.publish_time * 1000 = 61000
  /\ currentPrices[pmsg.feed] # NoPrice
  /\ currentPrices[pmsg.feed].price # pmsg.price
  /\ Len(priceUpdateCallbacks) >= 1
  /\ delivered = <<>>

\* C20: when a stored update is fanned out, every registered callback is
\* invoked once, in registration order, also after a callback before it threw,
\* and no exception leaves notifyPriceUpdate.
C20_FanOutSurvivesThrowingCallback ==
  [][( /\ pseq' # pseq
       /\ pmsg'.feed \in PriceSymbols
       /\ pat' - pmsg'.publish_time * 1000 <= 60000 )
     => /\ currentPrices'[pmsg'.feed] =
              [price |-> pmsg'.price, publishTime |-> pmsg'.publish_time * 1000]
        /\ delivered' = priceUpdateCallbacks
        /\ \A i, j \in 1..Len(delivered') : i # j => delivered'[i] # delivered'[j]
        /\ escaped' = FALSE]_vars

\* the first of two subscribers threw and the second was still invoked
C20_Witness ==
  /\ Len(priceUpdateCallbacks) = 2
  /\ delivered = priceUpdateCallbacks
  /\ delivered[1] \in threw
  /\ delivered[2] \notin threw
  /\ escaped = FALSE

\* C21: for each controller loop, after stop() and as long as start() is not
\* called again, a scan in progress is left alone by stop() and returns, no new
\* scan begins, and every activation of the loop returns.
C21_StopEndsLoopAfterScan ==
  /\ [][\A k \in Controllers, i \in Loops :
          /\ (loopPc[k][i] = "scan" /\ loopPc'[k][i] # "scan")
                => (loopPc'[k][i] = "sleep" /\ isRunning'[k] = isRunning[k])
          /\ (loopPc[k][i] # "scan" /\ loopPc'[k][i] = "scan")
                => isRunning'[k]]_vars
  /\ \A k \in Controllers :
        (~isRunning[k]) ~> (isRunning[k] \/ \A i \in Loops : loopPc[k][i] = "none")

\* stop() was called during a scan of the PositionMonitor, the scan returned
\* afterwards and the loop returned
C21_Witness ==
  /\ ~isRunning["PositionMonitor"]
  /\ lhist["PositionMonitor"] = "completed"
  /\ \A i \in Loops : loopPc["PositionMonitor"][i] = "none"

\* C22: for each controller at most one scan is in progress at any time,
\* whatever the sequence of start() and stop() calls.
C22_OneScanAtATime ==
  \A k \in Controllers :
     Cardinality({i \in Loops : loopPc[k][i] = "scan"}) <= 1

\* C23: when the authorization counter read from the ledger differs from the
\* counter recorded in the order, the pre-flight check moves the order to
\* NeedsResign with a reason and calls no execution transaction.
C23_StaleCounterNeedsResign ==
  [][\A i \in Loops :
       ( /\ apc[i] = "nonce" /\ apc'[i] # "nonce"
         /\ olast' # NoPreflight
         /\ BigIntOf(olast'.orderNonce) # olast'.chainNonce )
       => /\ orders'[olast'.order].status = "NeedsResign"
          /\ orders'[olast'.order].note # ""
          /\ apc'[i] # "send"]_vars

\* an order recorded with counter 1 was checked against the ledger's counter 0
\* and is NeedsResign
C23_Witness ==
  /\ olast # NoPreflight
  /\ olast.orderNonce = "1"
  /\ olast.chainNonce = 0
  /\ orders[olast.order].status = "NeedsResign"
  /\ \A i \in Loops : apc[i] # "send"

\* C24, as stated: when the signature recorded on a triggered order recovers
\* to neither the trader's nor the order's session-key address, or the
\* recovery fails, the order is moved to Failed and no execution transaction
\* is called.
C24_AsStated ==
  [][\A i \in Loops :
       ( /\ apc[i] = "nonce" /\ apc'[i] # "nonce"
         /\ olast' # NoPreflight
         /\ \/ olast'.recovered \in { <<"e", "F">>, <<>> }
            \/ olast'.recovered = <<"c", "D">> /\ ~olast'.sessionKey )
       => /\ orders'[olast'.order].status = "Failed"
          /\ apc'[i] # "send"]_vars

\* C24, amended: when the counter check has passed and the signature recovers
\* to neither address, or the recovery fails, the order is moved to Failed and
\* no execution transaction is called; when the counter check has not passed
\* the order is moved to NeedsResign, and no transaction is called either.
C24_BadSignatureFails ==
  [][\A i \in Loops :
       ( /\ apc[i] = "nonce" /\ apc'[i] # "nonce"
         /\ olast' # NoPreflight
         /\ \/ olast'.recovered \in { <<"e", "F">>, <<>> }
            \/ olast'.recovered = <<"c", "D">> /\ ~olast'.sessionKey )
       => /\ orders'[olast'.order].status =
               (IF olast'.orderNonce = NonceToString(olast'.chainNonce)
                THEN "Failed" ELSE "NeedsResign")
          /\ apc'[i] # "send"]_vars

\* an order whose counter matched and whose signature recovered to the session
\* key of another order is Failed
C24_Witness ==
  /\ olast # NoPreflight
  /\ olast.orderNonce = "1"
  /\ olast.chainNonce = 1
  /\ olast.recovered = <<"c", "D">>
  /\ ~olast.sessionKey
  /\ orders[olast.order].status = "Failed"
  /\ \A i \in Loops : apc[i] # "send"

\* C25: executeOrder is called for an order only at a time within its window:
\* startTime <= t <= endTime.
C25_ExecutedWithinWindow ==
  ostart # NoStart
  => /\ orders[ostart.order].startTime <= ostart.at
     /\ ostart.at <= orders[ostart.order].endTime

\* C26: executeOrder is called only for an order whose status is Pending at
\* that moment.
C26_OnlyPendingIsExecuted ==
  ostart # NoStart => ostart.was = "Pending"


----------------------------------------------------------------------------
\* C27: neither loop acts on an item whose symbol has no quote in the cache
\* or whose quote is older than 60 s when it is evaluated.  A position that
\* reached the risk policy, got a verdict or a close was checked with a quote
\* of at most 60 s; an Open position checked without such a quote is skipped
\* without an error; an order whose execution was started was evaluated with
\* a quote of at most 60 s.
C27_NoActionWithoutFreshQuote ==
  /\ (mpc \in {"risk", "liquidate"} \/ mverdict # "none" \/ mout \in {"submitted", "kept"})
        => (mquote # NoQuote /\ mquote.age <= 60000)
  /\ (mout # "none" /\ mpos.status = 0 /\ (mquote = NoQuote \/ mquote.age > 60000))
        => (mout = "skipped" /\ mpc = "idle" /\ mverdict = "none")
  /\ ostart # NoStart => (ostart.quote # NoQuote /\ ostart.quote.age <= 60000)

\* the scan has passed over an Open position whose quote is 60.001 s old
C27_Witness ==
  /\ spc \in {"scan", "done"}
  /\ mpos.status = 0
  /\ mquote # NoQuote
  /\ mquote.age = 60001
  /\ mout = "skipped"

----------------------------------------------------------------------------
\* C28: when the shouldLiquidate call fails, the verdict counts as
\* not-liquidate for this cycle: a force-close is submitted for the position
\* exactly when its pnlBps is at or below the floor of -9900, and the scan
\* goes on: the position's close is awaited, or the next position is read,
\* or the scan ends after the last position; the loop is left as it is.
C28_FailedVerdictIsNotLiquidate ==
  [][(mpc = "risk" /\ mverdict' = "threw") =>
       /\ (mout' = "submitted") <=> (mbps <= -9900)
       /\ mout' = "submitted" => (mpc' = "liquidate" /\ spc' = "scan" /\ sid' = sid)
       /\ mout' # "submitted" =>
            /\ mout' = "kept"
            /\ mpc' = "idle"
            /\ IF sid < stotal THEN spc' = "scan" /\ sid' = sid + 1
                               ELSE spc' = "done" /\ sid' = sid
       /\ isRunning' = isRunning
       /\ loopPc' = loopPc
       /\ ledger' = ledger]_vars

\* the call failed for a position above the floor, no close was submitted
\* and the scan reads the next position
C28_Witness ==
  /\ mverdict = "threw"
  /\ mout = "kept"
  /\ mbps > -9900
  /\ spc = "scan"
  /\ mpc = "idle"
  /\ sid > 1
  /\ mpos = Position(sid - 1, 0)

----------------------------------------------------------------------------
\* C29: a failed force-close submission is not re-raised.  The step in which
\* it fails leaves the position Open and the loop as it is, and the scan
\* reads the next position or ends after the last one.  Having failed before
\* changes nothing afterwards: an Open position is passed over only for lack
\* of a quote of at most 60 s, and a position whose verdict is true or whose
\* pnlBps is at or below -9900 gets a force-close submission, in every cycle.
C29_FailedCloseIsRetried ==
  [][/\ (mpc = "liquidate" /\ sfailed' # sfailed) =>
          /\ sfailed' = sfailed \cup {sid}
          /\ ledger' = ledger
          /\ mpc' = "idle"
          /\ mout' = "submitted"
          /\ IF sid < stotal THEN spc' = "scan" /\ sid' = sid + 1
                             ELSE spc' = "done" /\ sid' = sid
          /\ isRunning' = isRunning
          /\ loopPc' = loopPc
     /\ (mout' = "skipped" /\ mpos'.status = 0) =>
          (mquote' = NoQuote \/ mquote'.age > 60000)
     /\ (mpc = "risk" /\ mpc' # "risk") =>
          ((mverdict' = "true" \/ mbps <= -9900) <=>
             (mout' = "submitted" /\ mpc' = "liquidate"))]_vars

\* a position whose force-close failed in an earlier cycle is still Open,
\* qualifies again and has a new force-close submitted
C29_Witness ==
  /\ spc = "scan"
  /\ sid \in sfailed
  /\ ledger[sid] = 0
  /\ mpos = Position(sid, 0)
  /\ mpc = "liquidate"
  /\ mout = "submitted"

----------------------------------------------------------------------------
\* C30: an error raised while one position or one order is processed never
\* aborts the scan or stops the loop.  A scan of the positions ends only
\* after the last position; while a scan is in progress its activation is in
\* the scan; when an await of executeOrder can reject and the next order of
\* the list is inside its time window, the rejection can be followed, in the
\* same step, by the execution of that order; and an activation that wakes
\* up begins the next scan whenever the loop is running.
C30_ScanGoesOn ==
  /\ (spc = "done" /\ stotal > 0) => sid = stotal
  /\ spc # "none" => loopPc["PositionMonitor"][1] = "scan"
  /\ \A i \in Loops :
        /\ apc[i] # "none" => loopPc["TapToTradeExecutor"][i] = "scan"
        /\ (apc[i] \in {"sign", "nonce", "send", "wait"} /\ Len(snap[i]) >= 2) =>
             LET o1 == snap[i][1]
                 o2 == snap[i][2]
             IN  (orders[o2].startTime <= anow[i] /\ anow[i] <= orders[o2].endTime) =>
                   ENABLED (/\ AwaitRejects(i)
                            /\ orders'[o1].status = "Failed"
                            /\ ostart'.order = o2)

\* C30, the step of the timer: the activation that wakes up begins the next
\* scan if the loop is running and ends if it is not
C30_NextIterationRuns ==
  \A k \in Controllers :
     (loopPc[k][1] = "sleep" /\ loopPc'[k][1] # "sleep") =>
        /\ loopPc'[k][1] = (IF isRunning[k] THEN "scan" ELSE "none")
        /\ (k = "PositionMonitor" /\ isRunning[k]) => spc' = "count"
        /\ (k = "TapToTradeExecutor" /\ isRunning[k]) => apc'[1] \in {"sign", "done"}

\* C30: errors of one item never abort the scan or stop the loop: the scan
\* goes on in every state and the next iteration runs at every wake-up
C30_ErrorsNeverAbort ==
  []C30_ScanGoesOn /\ [][C30_NextIterationRuns]_vars

\* the check of position 2 raised a RangeError for its zero collateral and
\* the scan reads position 3
C30_Witness ==
  /\ spc = "scan"
  /\ mpc = "idle"
  /\ sid = 3
  /\ mout = "error"
  /\ mpos = Position(2, 0)

----------------------------------------------------------------------------
\* C31, the step in which executeOrder returns: the order it was called for is
\* Executed, Failed or NeedsResign; it is Executed only when tx.wait()
\* resolved, with no error detail, and Failed with the error detail
C31_EndsMarked ==
  \A i \in Loops :
     (apc[i] \in {"sign", "nonce", "send", "wait"} /\ snap'[i] # snap[i]) =>
        LET o == Head(snap[i])
        IN  /\ orders'[o].status \in {"Executed", "Failed", "NeedsResign"}
            /\ orders'[o].status = "Executed" => (apc[i] = "wait" /\ orders'[o].note = "")
            /\ orders'[o].status = "Failed" => orders'[o].note = "reason"
            /\ orders'[o].status = "NeedsResign" => apc[i] = "nonce"

----------------------------------------------------------------------------
\* C32, for the orders s that a run of the for loop of activation i went
\* through: the order it executes is inside its window, was read with a quote
\* of at most 60 s and meets its trigger (long: price <= trigger price, short:
\* price >= trigger price); an order inside its window that it passed over
\* with such a quote does not meet its trigger
C32_Decided(i, s) ==
  LET r == snap'[i]
      now == anow'[i]
      InWindow(o) == orders[o].startTime <= now /\ now <= orders[o].endTime
      Met(o, price) == IF orders[o].isLong THEN price <= TRIGGER_PRICE
                                           ELSE price >= TRIGGER_PRICE
  IN  /\ r # <<>> =>
           /\ ostart'.order = Head(r)
           /\ InWindow(Head(r))
           /\ ostart'.quote # NoQuote
           /\ ostart'.quote.age <= 60000
           /\ Met(Head(r), ostart'.quote.price)
      /\ oseen' # NoQuote =>
           \A o \in PassedOver(s, r) : InWindow(o) => ~Met(o, oseen'.price)

\* C32: an in-window order with a fresh quote is executed in a scan if and
\* only if its trigger holds, in the scan's first run of the for loop and in
\* the runs that follow the return of an executeOrder
C32_ExecutedIffTriggered ==
  [][\A i \in Loops :
       /\ (loopPc["TapToTradeExecutor"][i] # "scan" /\ loopPc'["TapToTradeExecutor"][i] = "scan")
             => C32_Decided(i, getPendingOrders(orders, 1))
       /\ (apc[i] \in {"sign", "nonce", "send", "wait"} /\ snap'[i] # snap[i])
             => C32_Decided(i, Tail(snap[i]))]_vars

\* the short order is executed at a price equal to its trigger price, after
\* the long order was executed in the same store
C32_Witness ==
  /\ ostart.order = 2
  /\ ~orders[2].isLong
  /\ ostart.quote.price = TRIGGER_PRICE
  /\ orders[1].status = "Executed"
  /\ orders[2].status = "Executing"

----------------------------------------------------------------------------
\* C33: at pre-flight, a signature that recovers to the order's session-key
\* address (and not to the trader's) is accepted, so that the order is
\* submitted, only if the session key is authorized by the trader and has
\* not expired at that time
C33_SessionKeyIsAuthorized ==
  [][(/\ olast' # NoPreflight
      /\ olast'.sessionKey
      /\ ToLowerCase(olast'.recovered) = ToLowerCase(<<"C", "d">>)
      /\ olast'.path # "")
       => /\ ToLowerCase(olast'.session.authorizedBy) = ToLowerCase(<<"a", "B">>)
          /\ olast'.session.expiresAt > clock]_vars

\* C34: a triggered order that passed pre-flight is submitted through
\* executeTapToTradeByKeeper if and only if it carries a session key, and
\* through executeTapToTrade, with its signature, otherwise
C34_KeeperPathIffSessionKey ==
  [][\A i \in Loops :
       (apc[i] = "nonce" /\ apc'[i] = "send") =>
          /\ olast'.order = Head(snap[i])
          /\ olast'.path \in {"executeTapToTradeByKeeper", "executeTapToTrade"}
          /\ (olast'.path = "executeTapToTradeByKeeper") <=> (olast'.session # NoSessionKey)]_vars

\* an order without a session key, signed by the trader, is submitted through
\* executeTapToTrade
C34_Witness ==
  /\ olast.path = "executeTapToTrade"
  /\ olast.session = NoSessionKey
  /\ olast.recovered = <<"A", "b">>
  /\ \E i \in Loops : apc[i] = "send"

----------------------------------------------------------------------------
\* C35: init() sets the counter before any value is issued: when the write
\* of init() takes place, no call holds or has sent a value issued by
\* getNonce() or getNonceBatch()
C35_InitWritesBeforeAnyIssue ==
  [][(initPc = "writing" /\ initPc' = "done") =>
       /\ log = <<>>
       /\ \A c \in Calls : myNonce[c] = NULL /\ sends[c] = 0]_vars


\* C36: the k-th reconnect scheduled since the last open event gets the delay
\* 5000 ms x k, and k never passes 5; once five have been scheduled and the
\* last of them has failed, no timer is pending and no socket is alive, so no
\* connection is attempted again; the open event sets the attempt count to 0.
C36_Scheduled ==
  /\ (timers' \ timers # {}) =>
       /\ consec' = consec + 1
       /\ consec' <= 5
       /\ timers' \ timers = {5000 * consec'}
  /\ (wsState # "open" /\ wsState' = "open") => reconnectAttempts' = 0 /\ consec' = 0

C36_Stopped ==
  consec = 5 /\ timers = {} /\ wsState \in {"closed", "none"}

C36_BackoffThenStop ==
  /\ [][C36_Scheduled]_vars
  /\ [](C36_Stopped => ~ENABLED (initialize \/ SocketOpens \/ SocketCloses \/ TimerFires))

C36_Witness ==
  C36_Stopped /\ ~shut

\* C39: once shutdown() has completed, no reconnect is scheduled, no socket is
\* created, the price map stays empty and no subscriber is called.
C39_StaysShutDown ==
  [][shut =>
       /\ timers' \subseteq timers
       /\ (wsState' = "connecting" => wsState = "connecting")
       /\ currentPrices' = [s \in PriceSymbols |-> NoPrice]
       /\ (pseq' # pseq => delivered' = <<>>)]_vars

\* C37: within one closePositionGasless call the ledger accepts the close
\* transaction at most once, whatever conflicts the call retries after.
C37_CloseAcceptedOnce ==
  \A c \in Calls : closes[c] <= 1

\* C38: between steps the mutex of the NonceManager is free and its queue is
\* empty, and no getNonce() promise is left pending: no caller ever takes the
\* enqueue branch.
C38_MutexFreeQueueEmpty ==
  /\ ~mutex
  /\ queue = <<>>
  /\ \A c \in Calls : prom[c] # "pending"

\* two callers hold a getNonce() promise at the same time
C38_Witness ==
  \E c, d \in Calls :
     /\ c # d
     /\ pc[c] = "nonce" /\ prom[c] = "value"
     /\ pc[d] = "nonce" /\ prom[d] = "value"
     /\ kind[c] = "relay" /\ kind[d] = "cancel"

\* C40: at most one streamToVault activation is in progress at a time, and
\* isStreaming is true exactly while one is; a trigger that is skipped takes no
\* sequence value, sends nothing and starts nothing.
C40_OneInProgress ==
  /\ Cardinality({s \in Loops : runPc[s] # "none"}) <= 1
  /\ isStreaming <=> (\E s \in Loops : runPc[s] # "none")

C40_SkipDoesNothing ==
  (~lastSkip /\ lastSkip') =>
     /\ nonce' = nonce
     /\ used' = used
     /\ runPc' = runPc
     /\ snonce' = snonce
     /\ isStreaming' = isStreaming

C40_SingleFlight ==
  /\ []C40_OneInProgress
  /\ [][C40_SkipDoesNothing]_vars

\* a trigger was skipped while a stream that holds a sequence value is at its send
C40_Witness ==
  /\ lastSkip
  /\ \E s \in Loops : runPc[s] = "send" /\ snonce[s] # NULL /\ nonce # NULL
====
